---- MODULE Spec2Model ----
(***************************************************************************)
(* A model of moov-io/bertlv: the BER-TLV codec (Encode, Decode and the    *)
(* tag and length grammar under them), the lookups over a decoded tree,    *)
(* the tag map (BuildTagMap and its readers), the struct mapper            *)
(* (Unmarshal) and the filtered copy (CopyTags).                           *)
(*                                                                         *)
(* A Go string is a sequence of one-character strings, a []byte a sequence *)
(* of numbers in 0..255, a TLV a record [Tag, Value, TLVs].  A nil slice   *)
(* and an empty slice are both the empty sequence.  A Go error is the      *)
(* sequence of the pieces fmt.Errorf and errors.New put in its message;    *)
(* the nil error is the empty sequence.                                    *)
(***************************************************************************)
EXTENDS Integers, Sequences, FiniteSets, TLC

\* tlvs:  the tree the program holds ([]TLV), built by the constructors or left by Decode
\* data:  the byte buffer the program holds ([]byte), built byte by byte or left by Encode
\* calls: the calls made so far, each with its arguments and what it returned
\* tagMap: the index the program holds (map[string][]TLV), left by BuildTagMap
\* target: the record Unmarshal is given a pointer to (its argument s), with the values
\*        of its fields
\* heap:  the arrays behind the slices of the trees CopyTags is given and returns
VARIABLES tlvs, data, calls, tagMap, target, heap

vars == <<tlvs, data, calls, tagMap, target, heap>>

(***************************************************************************)
(* Bounds of the model.                                                    *)
(***************************************************************************)
\* nodes a tree built by NewTag, NewComposite and TLV literals may hold
MaxNodes == 3
\* bytes a buffer built byte by byte may hold
MaxLen == 5
\* calls made in a row, each on the registers the previous one left
MaxCalls == 3

(***************************************************************************)
(* Strings and bytes.                                                      *)
(***************************************************************************)
Byte == 0..255

\* a & 0b0001_1111
low5(b) == b % 32

\* b & 0b1000_0000 == 0b1000_0000
msbSet(b) == b >= 128

lowerDigits == <<"0", "1", "2", "3", "4", "5", "6", "7", "8", "9", "a", "b", "c", "d", "e", "f">>

upperDigits == <<"0", "1", "2", "3", "4", "5", "6", "7", "8", "9", "A", "B", "C", "D", "E", "F">>

\* encoding/hex fromHexChar: the digit's value, or -1 for a character that is no hex digit
fromHexChar(c) ==
    IF \E i \in 1..16 : lowerDigits[i] = c
    THEN (CHOOSE i \in 1..16 : lowerDigits[i] = c) - 1
    ELSE IF \E i \in 1..16 : upperDigits[i] = c
    THEN (CHOOSE i \in 1..16 : upperDigits[i] = c) - 1
    ELSE -1

\* the pieces of an error message
fmtText(s) == [k |-> "text", v |-> s]

fmtHex(bytes) == [k |-> "%X", v |-> bytes]

fmtInt(n) == [k |-> "%d", v |-> n]

fmtVal(x) == [k |-> "%s", v |-> x]

\* hex.DecodeString(s): [bytes, err]
hexDecodeString(s) ==
    LET n == Len(s) \div 2
        bad == {i \in 1..(2 * n) : fromHexChar(s[i]) = -1}
        first == CHOOSE i \in bad : \A j \in bad : i <= j
    IN  IF bad # {}
        THEN [bytes |-> <<>>, err |-> <<fmtText("encoding/hex: invalid byte: "), fmtVal(s[first])>>]
        ELSE IF Len(s) % 2 = 1
        THEN IF fromHexChar(s[Len(s)]) = -1
             THEN [bytes |-> <<>>, err |-> <<fmtText("encoding/hex: invalid byte: "), fmtVal(s[Len(s)])>>]
             ELSE [bytes |-> <<>>, err |-> <<fmtText("encoding/hex: odd length hex string")>>]
        ELSE [bytes |-> [i \in 1..n |-> fromHexChar(s[2 * i - 1]) * 16 + fromHexChar(s[2 * i])],
              err |-> <<>>]

\* hex.EncodeToString(bytes): two lowercase digits a byte
hexEncodeToString(bytes) ==
    [i \in 1..(2 * Len(bytes)) |->
        IF i % 2 = 1
        THEN lowerDigits[(bytes[(i + 1) \div 2] \div 16) + 1]
        ELSE lowerDigits[(bytes[i \div 2] % 16) + 1]]

\* strings.ToUpper(s)
ToUpper(s) ==
    [i \in 1..Len(s) |->
        IF \E d \in 11..16 : lowerDigits[d] = s[i]
        THEN upperDigits[CHOOSE d \in 11..16 : lowerDigits[d] = s[i]]
        ELSE s[i]]

(***************************************************************************)
(* Grammar primitives.                                                     *)
(***************************************************************************)
RECURSIVE lengthBytesOf(_)
\* the loop of encodeLength: the bytes of length, most significant first
lengthBytesOf(length) ==
    IF length > 0
    THEN lengthBytesOf(length \div 256) \o <<length % 256>>
    ELSE <<>>

\* encodeLength with the short form taken up to 128, not 127
encodeLengthShortTo128(length) ==
    IF length <= 128
    THEN <<length>>
    ELSE <<128 + Len(lengthBytesOf(length))>> \o lengthBytesOf(length)

\* encodeLength without the 0x80 bit in the lead byte of the long form
encodeLengthNoLongBit(length) ==
    IF length < 128
    THEN <<length>>
    ELSE <<Len(lengthBytesOf(length))>> \o lengthBytesOf(length)

encodeLength(length) ==
    IF length < 128
    THEN <<length>>
    ELSE <<128 + Len(lengthBytesOf(length))>> \o lengthBytesOf(length)

isMultiByte(tag) == low5(tag[1]) = 31

\* isConstructed with the mask 0b0100_0000
isConstructedBit40(tag) == (tag[1] \div 64) % 2 = 1

\* isConstructed looking at the last byte of the tag
isConstructedLastByte(tag) == (tag[Len(tag)] \div 32) % 2 = 1

\* no tag is constructed
isConstructedNever(tag) == FALSE

isConstructed(tag) == (tag[1] \div 32) % 2 = 1

\* validateTag without the check of the last byte of a multi-byte tag
validateTagLastByteFree(tag) ==
    IF Len(tag) = 0
    THEN <<fmtText("tag cannot be empty")>>
    ELSE IF ~isMultiByte(tag)
    THEN IF Len(tag) > 1
         THEN <<fmtText("invalid tag format: single-byte tag should not have additional bytes")>>
         ELSE <<>>
    ELSE IF Len(tag) < 2
    THEN <<fmtText("multi-byte tag is incomplete; additional bytes are required")>>
    ELSE IF \E i \in 2..(Len(tag) - 1) : ~msbSet(tag[i])
    THEN <<fmtText("invalid tag format: byte %d should have MSB set")>>
    ELSE <<>>

validateTag(tag) ==
    IF Len(tag) = 0
    THEN <<fmtText("tag cannot be empty")>>
    ELSE IF ~isMultiByte(tag)
    THEN IF Len(tag) > 1
         THEN <<fmtText("invalid tag format: single-byte tag should not have additional bytes")>>
         ELSE <<>>
    ELSE IF Len(tag) < 2
    THEN <<fmtText("multi-byte tag is incomplete; additional bytes are required")>>
    ELSE IF msbSet(tag[Len(tag)])
    THEN <<fmtText("invalid tag format: last byte must not have MSB set")>>
    ELSE IF \E i \in 2..(Len(tag) - 1) : ~msbSet(tag[i])
    THEN <<fmtText("invalid tag format: byte %d should have MSB set"),
           fmtInt((CHOOSE i \in 2..(Len(tag) - 1) :
                      ~msbSet(tag[i]) /\ \A j \in 2..(i - 1) : msbSet(tag[j])) - 1)>>
    ELSE <<>>

\* decodeTag returning data[:i] for a multi-byte tag, one byte short
decodeTagOneShort(buf) ==
    IF Len(buf) = 0
    THEN [tag |-> <<>>, read |-> 0, err |-> <<fmtText("tag is empty")>>]
    ELSE IF low5(buf[1]) # 31
    THEN [tag |-> SubSeq(buf, 1, 1), read |-> 1, err |-> <<>>]
    ELSE IF \E i \in 2..Len(buf) : ~msbSet(buf[i])
    THEN LET i == CHOOSE i \in 2..Len(buf) :
                      ~msbSet(buf[i]) /\ \A j \in 2..(i - 1) : msbSet(buf[j])
         IN  [tag |-> SubSeq(buf, 1, i - 1), read |-> i, err |-> <<>>]
    ELSE [tag |-> <<>>, read |-> Len(buf), err |-> <<fmtText("tag is incomplete")>>]

\* decodeTag taking every multi-byte tag for a tag of two bytes
decodeTagTwoBytes(buf) ==
    IF Len(buf) = 0
    THEN [tag |-> <<>>, read |-> 0, err |-> <<fmtText("tag is empty")>>]
    ELSE IF ~isMultiByte(buf)
    THEN [tag |-> SubSeq(buf, 1, 1), read |-> 1, err |-> <<>>]
    ELSE IF Len(buf) >= 2
    THEN [tag |-> SubSeq(buf, 1, 2), read |-> 2, err |-> <<>>]
    ELSE [tag |-> <<>>, read |-> Len(buf), err |-> <<fmtText("tag is incomplete")>>]

\* decodeTag(data): [tag, read, err]
decodeTag(buf) ==
    IF Len(buf) = 0
    THEN [tag |-> <<>>, read |-> 0, err |-> <<fmtText("tag is empty")>>]
    ELSE IF ~isMultiByte(buf)
    THEN [tag |-> SubSeq(buf, 1, 1), read |-> 1, err |-> <<>>]
    ELSE IF \E i \in 2..Len(buf) : ~msbSet(buf[i])
    THEN LET i == CHOOSE i \in 2..Len(buf) :
                      ~msbSet(buf[i]) /\ \A j \in 2..(i - 1) : msbSet(buf[j])
         IN  [tag |-> SubSeq(buf, 1, i), read |-> i, err |-> <<>>]
    ELSE [tag |-> <<>>, read |-> Len(buf), err |-> <<fmtText("tag is incomplete")>>]

(***************************************************************************)
(* A Go int is 64 bits wide.  decodeLength accumulates the length in one,  *)
(* so the model keeps it as the 8 bytes of its two's complement, most      *)
(* significant first.                                                      *)
(***************************************************************************)
int64Zero == <<0, 0, 0, 0, 0, 0, 0, 0>>

\* int(b) for a byte b
int64OfByte(b) == <<0, 0, 0, 0, 0, 0, 0, b>>

\* length<<8 | int(b): the top byte is shifted out
int64Shl8Or(length, b) == Tail(length) \o <<b>>

int64Negative(length) == length[1] >= 128

\* the int64 is one of 0 .. 2^31 - 1
int64Small(length) ==
    /\ \A i \in 1..4 : length[i] = 0
    /\ length[5] < 128

\* its value, when int64Small
int64Value(length) ==
    ((length[5] * 256 + length[6]) * 256 + length[7]) * 256 + length[8]

\* n < length, for a slice length n
int64Exceeds(length, n) ==
    /\ ~int64Negative(length)
    /\ (int64Small(length) => n < int64Value(length))

RECURSIVE lengthLoop(_, _, _, _)
\* the loop of decodeLength, from index i (counted from 0 as in the source)
lengthLoop(buf, i, lengthBytes, length) ==
    IF i <= lengthBytes
    THEN lengthLoop(buf, i + 1, lengthBytes, int64Shl8Or(length, buf[i + 1]))
    ELSE length

\* decodeLength(data): [length, read, err]
decodeLength(buf) ==
    IF Len(buf) = 0
    THEN [length |-> int64Zero, read |-> 0, err |-> <<fmtText("length is empty")>>]
    ELSE IF buf[1] < 128
    THEN [length |-> int64OfByte(buf[1]), read |-> 1, err |-> <<>>]
    ELSE LET lengthBytes == buf[1] % 128
         IN  IF Len(buf) < lengthBytes + 1
             THEN [length |-> int64Zero, read |-> 0, err |-> <<fmtText("length is incomplete")>>]
             ELSE [length |-> lengthLoop(buf, 1, lengthBytes, int64Zero),
                   read |-> lengthBytes + 1, err |-> <<>>]

(***************************************************************************)
(* The codec.                                                              *)
(***************************************************************************)
\* TLV{Tag: tag, Value: value, TLVs: children}
TLV(tag, value, children) == [Tag |-> tag, Value |-> value, TLVs |-> children]

RECURSIVE Encode(_)
RECURSIVE encodeLoop(_, _, _)
\* the loop of Encode from index i (counted from 1), encoded being the bytes so far
encodeLoop(list, i, encoded) ==
    IF i > Len(list)
    THEN [encoded |-> encoded, err |-> <<>>]
    ELSE LET hexed == hexDecodeString(list[i].Tag)
             tag == hexed.bytes
         IN  IF hexed.err # <<>>
             THEN [encoded |-> <<>>,
                   err |-> <<fmtText("encoding tag "), fmtVal(list[i]), fmtText(": ")>> \o hexed.err]
             ELSE IF validateTag(tag) # <<>>
             THEN [encoded |-> <<>>,
                   err |-> <<fmtText("validating tag "), fmtVal(list[i].Tag), fmtText(": ")>>
                           \o validateTag(tag)]
             ELSE IF Len(list[i].TLVs) > 0
             THEN IF ~isConstructed(tag)
                  THEN [encoded |-> <<>>,
                        err |-> <<fmtText("tag "), fmtVal(list[i].Tag),
                                  fmtText(" is not constructed/composite")>>]
                  ELSE LET encodedComposite == Encode(list[i].TLVs)
                       IN  IF encodedComposite.err # <<>>
                           THEN [encoded |-> <<>>,
                                 err |-> <<fmtText("encoding composite "), fmtVal(list[i]),
                                           fmtText(": ")>> \o encodedComposite.err]
                           ELSE encodeLoop(list, i + 1,
                                    encoded \o tag
                                            \o encodeLength(Len(encodedComposite.encoded))
                                            \o encodedComposite.encoded)
             ELSE encodeLoop(list, i + 1,
                      encoded \o tag \o encodeLength(Len(list[i].Value)) \o list[i].Value)

\* Encode(tlvs): [encoded, err]
Encode(list) == encodeLoop(list, 1, <<>>)

RECURSIVE Decode(_)
RECURSIVE decodeLoop(_, _)
RECURSIVE decodeLoopNoPadding(_, _)
\* the loop of Decode without the skip of 00 bytes: 00 is read as a tag like any other
decodeLoopNoPadding(buf, decoded) ==
    IF Len(buf) = 0
    THEN [tlvs |-> decoded, err |-> <<>>, panic |-> FALSE]
    ELSE LET t == decodeTag(buf)
             afterTag == SubSeq(buf, t.read + 1, Len(buf))
             l == decodeLength(afterTag)
             afterLength == SubSeq(afterTag, l.read + 1, Len(afterTag))
             length == int64Value(l.length)
             value == SubSeq(afterLength, 1, length)
             rest == SubSeq(afterLength, length + 1, Len(afterLength))
             hexTag == ToUpper(hexEncodeToString(t.tag))
             inner == Decode(value)
         IN  IF t.err # <<>>
             THEN [tlvs |-> <<>>, err |-> <<fmtText("reading tag: ")>> \o t.err, panic |-> FALSE]
             ELSE IF l.err # <<>>
             THEN [tlvs |-> <<>>,
                   err |-> <<fmtText("reading length for tag "), fmtHex(t.tag), fmtText(": ")>>
                           \o l.err,
                   panic |-> FALSE]
             ELSE IF int64Exceeds(l.length, Len(afterLength))
             THEN [tlvs |-> <<>>,
                   err |-> <<fmtText("insufficient data for expected length "), fmtInt(l.length)>>,
                   panic |-> FALSE]
             ELSE IF int64Negative(l.length)
             THEN [tlvs |-> <<>>, err |-> <<>>, panic |-> TRUE]
             ELSE IF isConstructed(t.tag)
             THEN IF inner.panic
                  THEN inner
                  ELSE IF inner.err # <<>>
                  THEN [tlvs |-> <<>>,
                        err |-> <<fmtText("decoding composite: ")>> \o inner.err,
                        panic |-> FALSE]
                  ELSE decodeLoopNoPadding(rest, Append(decoded, TLV(hexTag, <<>>, inner.tlvs)))
             ELSE decodeLoopNoPadding(rest, Append(decoded, TLV(hexTag, value, <<>>)))

\* the loop of Decode on what is left of the buffer, decoded being the nodes so far.
\* panic: the slice expression data[:length] with a negative length stops the program.
decodeLoop(buf, decoded) ==
    IF Len(buf) = 0
    THEN [tlvs |-> decoded, err |-> <<>>, panic |-> FALSE]
    ELSE LET t == decodeTag(buf)
             afterTag == SubSeq(buf, t.read + 1, Len(buf))
             l == decodeLength(afterTag)
             afterLength == SubSeq(afterTag, l.read + 1, Len(afterTag))
             length == int64Value(l.length)
             value == SubSeq(afterLength, 1, length)
             rest == SubSeq(afterLength, length + 1, Len(afterLength))
             hexTag == ToUpper(hexEncodeToString(t.tag))
             inner == Decode(value)
         IN  IF t.err # <<>>
             THEN [tlvs |-> <<>>, err |-> <<fmtText("reading tag: ")>> \o t.err, panic |-> FALSE]
             ELSE IF t.tag[1] = 0
             THEN decodeLoop(afterTag, decoded)
             ELSE IF l.err # <<>>
             THEN [tlvs |-> <<>>,
                   err |-> <<fmtText("reading length for tag "), fmtHex(t.tag), fmtText(": ")>>
                           \o l.err,
                   panic |-> FALSE]
             ELSE IF int64Exceeds(l.length, Len(afterLength))
             THEN [tlvs |-> <<>>,
                   err |-> <<fmtText("insufficient data for expected length "), fmtInt(l.length)>>,
                   panic |-> FALSE]
             ELSE IF int64Negative(l.length)
             THEN [tlvs |-> <<>>, err |-> <<>>, panic |-> TRUE]
             ELSE IF isConstructed(t.tag)
             THEN IF inner.panic
                  THEN inner
                  ELSE IF inner.err # <<>>
                  THEN [tlvs |-> <<>>,
                        err |-> <<fmtText("decoding composite: ")>> \o inner.err,
                        panic |-> FALSE]
                  ELSE decodeLoop(rest, Append(decoded, TLV(hexTag, <<>>, inner.tlvs)))
             ELSE decodeLoop(rest, Append(decoded, TLV(hexTag, value, <<>>)))

\* Decode(data): [tlvs, err, panic]
Decode(buf) == decodeLoop(buf, <<>>)

(***************************************************************************)
(* Decode, one loop iteration at a time.  The call in progress has a stack *)
(* of frames, one for the call of Decode on the caller's buffer and one    *)
(* for each call of Decode on the value of a composite that has not        *)
(* returned.  A frame holds what is left of its buffer (data), the nodes   *)
(* decoded so far (tlvs), the tag of the composite whose value the frame   *)
(* above is decoding (tag) and the length of the buffer the call was given *)
(* (size).                                                                 *)
(***************************************************************************)
DecodeFrame(buf) == [data |-> buf, tlvs |-> <<>>, tag |-> <<>>, size |-> Len(buf)]

RECURSIVE decodingComposite(_, _)
\* the error err as the callers of depth - 1 calls of Decode on a composite wrap it
decodingComposite(depth, err) ==
    IF depth <= 1
    THEN err
    ELSE decodingComposite(depth - 1, <<fmtText("decoding composite: ")>> \o err)

\* the call returns err from the frame at the top of its stack
decodeFails(call, err) ==
    [call EXCEPT !.pc = "done", !.frames = <<>>, !.tlvs = <<>>,
                 !.err = decodingComposite(Len(call.frames), err)]

\* continue, after a 00 byte, without data = data[read:]
skipPaddingInPlace(buf, read) == buf

\* data = data[read:] and continue, after a 00 byte
skipPadding(buf, read) == SubSeq(buf, read + 1, Len(buf))

\* one iteration of the loop of Decode in the frame at the top of the stack, whose
\* buffer is not empty
decodeIteration(call) ==
    LET d == Len(call.frames)
        buf == call.frames[d].data
        t == decodeTag(buf)
        afterTag == SubSeq(buf, t.read + 1, Len(buf))
        l == decodeLength(afterTag)
        afterLength == SubSeq(afterTag, l.read + 1, Len(afterTag))
        length == int64Value(l.length)
        value == SubSeq(afterLength, 1, length)
        rest == SubSeq(afterLength, length + 1, Len(afterLength))
        hexTag == ToUpper(hexEncodeToString(t.tag))
    IN  IF t.err # <<>>
        THEN decodeFails(call, <<fmtText("reading tag: ")>> \o t.err)
        ELSE IF t.tag[1] = 0
        THEN [call EXCEPT !.frames[d].data = skipPadding(buf, t.read)]
        ELSE IF l.err # <<>>
        THEN decodeFails(call, <<fmtText("reading length for tag "), fmtHex(t.tag),
                                 fmtText(": ")>> \o l.err)
        ELSE IF int64Exceeds(l.length, Len(afterLength))
        THEN decodeFails(call, <<fmtText("insufficient data for expected length "),
                                 fmtInt(l.length)>>)
        ELSE IF int64Negative(l.length)
        THEN [call EXCEPT !.pc = "done", !.frames = <<>>, !.tlvs = <<>>, !.panic = TRUE]
        ELSE IF isConstructed(t.tag)
        THEN [call EXCEPT !.frames = Append([@ EXCEPT ![d].data = rest, ![d].tag = hexTag],
                                            DecodeFrame(value))]
        ELSE [call EXCEPT !.frames[d].data = rest,
                          !.frames[d].tlvs = Append(@, TLV(hexTag, value, <<>>))]

\* return tlvs, nil from the frame at the top of the stack, whose buffer is empty: the
\* call returns, or the frame below appends the composite
decodeReturn(call) ==
    LET d == Len(call.frames)
        decoded == call.frames[d].tlvs
    IN  IF d = 1
        THEN [call EXCEPT !.pc = "done", !.frames = <<>>, !.tlvs = decoded]
        ELSE [call EXCEPT !.frames =
                 [SubSeq(@, 1, d - 1) EXCEPT
                     ![d - 1].tlvs = Append(@, TLV(call.frames[d - 1].tag, <<>>, decoded))]]

(***************************************************************************)
(* Lookups.                                                                *)
(***************************************************************************)
\* strings.Cut(s, "."): [before, after]
Cut(s) ==
    IF \E i \in 1..Len(s) : s[i] = "."
    THEN LET i == CHOOSE i \in 1..Len(s) : s[i] = "." /\ \A j \in 1..(i - 1) : s[j] # "."
         IN  [before |-> SubSeq(s, 1, i - 1), after |-> SubSeq(s, i + 1, Len(s))]
    ELSE [before |-> s, after |-> <<>>]

RECURSIVE FindTagByPath(_, _)
RECURSIVE findTagByPathLoop(_, _, _, _)
RECURSIVE findTagByPathLoopFirstMatchOnly(_, _, _, _)
RECURSIVE findTagByPathLoopBacktracking(_, _, _, _)
\* the loop of FindTagByPath going on to the next sibling when the rest of the path is
\* not found under a sibling with the tag
findTagByPathLoopBacktracking(list, i, tag, path) ==
    IF i > Len(list)
    THEN [tlv |-> TLV(<<>>, <<>>, <<>>), found |-> FALSE]
    ELSE IF list[i].Tag = tag /\ path = <<>>
    THEN [tlv |-> list[i], found |-> TRUE]
    ELSE IF list[i].Tag = tag /\ Len(list[i].TLVs) > 0
            /\ FindTagByPath(list[i].TLVs, path).found
    THEN FindTagByPath(list[i].TLVs, path)
    ELSE findTagByPathLoopBacktracking(list, i + 1, tag, path)

\* the loop of FindTagByPath giving up at the first sibling with the tag when it has
\* no children, instead of going on to the next sibling
findTagByPathLoopFirstMatchOnly(list, i, tag, path) ==
    IF i > Len(list)
    THEN [tlv |-> TLV(<<>>, <<>>, <<>>), found |-> FALSE]
    ELSE IF list[i].Tag = tag /\ path = <<>>
    THEN [tlv |-> list[i], found |-> TRUE]
    ELSE IF list[i].Tag = tag /\ Len(list[i].TLVs) > 0
    THEN FindTagByPath(list[i].TLVs, path)
    ELSE IF list[i].Tag = tag
    THEN [tlv |-> TLV(<<>>, <<>>, <<>>), found |-> FALSE]
    ELSE findTagByPathLoopFirstMatchOnly(list, i + 1, tag, path)

\* the loop of FindTagByPath over the siblings from index i (counted from 1)
findTagByPathLoop(list, i, tag, path) ==
    IF i > Len(list)
    THEN [tlv |-> TLV(<<>>, <<>>, <<>>), found |-> FALSE]
    ELSE IF list[i].Tag = tag /\ path = <<>>
    THEN [tlv |-> list[i], found |-> TRUE]
    ELSE IF list[i].Tag = tag /\ Len(list[i].TLVs) > 0
    THEN FindTagByPath(list[i].TLVs, path)
    ELSE findTagByPathLoop(list, i + 1, tag, path)

\* FindTagByPath(tlvs, path): [tlv, found]
FindTagByPath(list, path) ==
    findTagByPathLoop(list, 1, Cut(path).before, Cut(path).after)

RECURSIVE findFirstTagLoop(_, _, _)
\* the loop of FindFirstTag over the siblings from index i (counted from 1): a
\* sibling with children ends the loop with the result of the search in its children
findFirstTagLoop(list, i, tag) ==
    IF i > Len(list)
    THEN [tlv |-> TLV(<<>>, <<>>, <<>>), found |-> FALSE]
    ELSE IF list[i].Tag = tag
    THEN [tlv |-> list[i], found |-> TRUE]
    ELSE IF Len(list[i].TLVs) > 0
    THEN findFirstTagLoop(list[i].TLVs, 1, tag)
    ELSE findFirstTagLoop(list, i + 1, tag)

\* FindFirstTag(tlvs, tag): [tlv, found]
FindFirstTag(list, tag) == findFirstTagLoop(list, 1, tag)

(***************************************************************************)
(* The tag map.  A map[string][]TLV is a function from the tag texts it    *)
(* holds to sequences of nodes; the empty map is the empty function.       *)
(***************************************************************************)
\* make(map[string][]TLV)
emptyTagMap == <<>>

\* tagMap[tag], the nil slice when the key is absent
instancesOf(m, tag) == IF tag \in DOMAIN m THEN m[tag] ELSE <<>>

\* tagMap[tlv.Tag] = append(tagMap[tlv.Tag], tlv) keeping only the last occurrence
appendInstanceLastOnly(m, tlv) ==
    [key \in DOMAIN m \cup {tlv.Tag} |->
        IF key = tlv.Tag THEN <<tlv>> ELSE m[key]]

\* tagMap[tlv.Tag] = append(tagMap[tlv.Tag], tlv)
appendInstance(m, tlv) ==
    [key \in DOMAIN m \cup {tlv.Tag} |->
        IF key = tlv.Tag THEN Append(instancesOf(m, tlv.Tag), tlv) ELSE m[key]]

RECURSIVE flattenTags(_, _, _)
\* flattenTags(tlvs, tagMap) from index i (counted from 1): the map after the loop
flattenTags(list, i, m) ==
    IF i > Len(list)
    THEN m
    ELSE LET added == appendInstance(m, list[i])
             nested == IF Len(list[i].TLVs) > 0
                       THEN flattenTags(list[i].TLVs, 1, added)
                       ELSE added
         IN  flattenTags(list, i + 1, nested)

\* BuildTagMap adding to the map the program already holds instead of a fresh one
BuildTagMapIntoHeldMap(list) ==
    IF Len(list) = 0
    THEN tagMap
    ELSE flattenTags(list, 1, tagMap)

\* BuildTagMap(tlvs): the map
BuildTagMap(list) ==
    IF Len(list) = 0
    THEN emptyTagMap
    ELSE flattenTags(list, 1, emptyTagMap)

\* FindFirst(tagMap, tag): [tlv, found]
FindFirst(m, tag) ==
    IF tag \notin DOMAIN m \/ Len(instancesOf(m, tag)) = 0
    THEN [tlv |-> TLV(<<>>, <<>>, <<>>), found |-> FALSE]
    ELSE [tlv |-> m[tag][1], found |-> TRUE]

\* Find(tagMap, tag): [tlvs, found]
Find(m, tag) ==
    [tlvs |-> instancesOf(m, tag),
     found |-> tag \in DOMAIN m /\ Len(instancesOf(m, tag)) > 0]

RECURSIVE valueBytes(_)
\* the sum of len(tlv.Value) over the instances
valueBytes(instances) ==
    IF Len(instances) = 0
    THEN 0
    ELSE Len(instances[1].Value) + valueBytes(Tail(instances))

\* TagMapStats{UniqueTags: len(tagMap)}
newTagMapStats(m) ==
    [TotalTags |-> 0, UniqueTags |-> Cardinality(DOMAIN m), DuplicateTags |-> 0,
     MemoryEstimate |-> 0]

\* one round of the loop of GetTagMapStats, counting duplicates as len(instances)
statsOfEntryDuplicatesWhole(stats, tag, instances) ==
    [stats EXCEPT
        !.TotalTags = @ + Len(instances),
        !.DuplicateTags = IF Len(instances) > 1 THEN @ + Len(instances) ELSE @,
        !.MemoryEstimate = @ + Len(tag) * Len(instances) + valueBytes(instances)
                             + 64 * Len(instances) + Len(instances) * 8]

\* one round of the loop of GetTagMapStats, for the entry tag -> instances
statsOfEntry(stats, tag, instances) ==
    [stats EXCEPT
        !.TotalTags = @ + Len(instances),
        !.DuplicateTags = IF Len(instances) > 1 THEN @ + Len(instances) - 1 ELSE @,
        !.MemoryEstimate = @ + Len(tag) * Len(instances) + valueBytes(instances)
                             + 64 * Len(instances) + Len(instances) * 8]

RECURSIVE statsLoop(_, _, _)
\* the loop of GetTagMapStats over the entries not visited yet, in the order range
\* takes them
statsLoop(m, keys, stats) ==
    IF keys = {}
    THEN stats
    ELSE LET tag == CHOOSE key \in keys : TRUE
         IN  statsLoop(m, keys \ {tag}, statsOfEntry(stats, tag, m[tag]))

\* GetTagMapStats(tagMap): the stats
GetTagMapStats(m) == statsLoop(m, DOMAIN m, newTagMapStats(m))

(***************************************************************************)
(* The struct mapper.  A record type is the sequence of its fields, each   *)
(* [Name, bertlv, Kind, Fields]: bertlv is the text of the field's bertlv  *)
(* struct tag (empty when it has none), Kind the reflect.Kind of the       *)
(* field's type ("bytes" for a slice of uint8, "string", "int64", "struct" *)
(* or another kind), Fields the fields of a nested struct.  A record value *)
(* is the sequence of the values of its fields, in the order of the type.  *)
(* An int64 is kept as the decimal numeral strconv.FormatInt writes for    *)
(* it, so that it has its full width.  Fields are exported.                *)
(***************************************************************************)
\* the one-byte strings of Go, by byte value + 1; a byte outside printable ASCII, and
\* the backquote, is written as its escape
byteChars ==
    << "\\x00", "\\x01", "\\x02", "\\x03", "\\x04", "\\x05", "\\x06", "\\x07",
       "\\x08", "\\x09", "\\x0A", "\\x0B", "\\x0C", "\\x0D", "\\x0E", "\\x0F",
       "\\x10", "\\x11", "\\x12", "\\x13", "\\x14", "\\x15", "\\x16", "\\x17",
       "\\x18", "\\x19", "\\x1A", "\\x1B", "\\x1C", "\\x1D", "\\x1E", "\\x1F",
       " ", "!", "\"", "#", "$", "%", "&", "'",
       "(", ")", "*", "+", ",", "-", ".", "/",
       "0", "1", "2", "3", "4", "5", "6", "7",
       "8", "9", ":", ";", "<", "=", ">", "?",
       "@", "A", "B", "C", "D", "E", "F", "G",
       "H", "I", "J", "K", "L", "M", "N", "O",
       "P", "Q", "R", "S", "T", "U", "V", "W",
       "X", "Y", "Z", "[", "\\", "]", "^", "_",
       "\\x60", "a", "b", "c", "d", "e", "f", "g",
       "h", "i", "j", "k", "l", "m", "n", "o",
       "p", "q", "r", "s", "t", "u", "v", "w",
       "x", "y", "z", "{", "|", "}", "~", "\\x7F",
       "\\x80", "\\x81", "\\x82", "\\x83", "\\x84", "\\x85", "\\x86", "\\x87",
       "\\x88", "\\x89", "\\x8A", "\\x8B", "\\x8C", "\\x8D", "\\x8E", "\\x8F",
       "\\x90", "\\x91", "\\x92", "\\x93", "\\x94", "\\x95", "\\x96", "\\x97",
       "\\x98", "\\x99", "\\x9A", "\\x9B", "\\x9C", "\\x9D", "\\x9E", "\\x9F",
       "\\xA0", "\\xA1", "\\xA2", "\\xA3", "\\xA4", "\\xA5", "\\xA6", "\\xA7",
       "\\xA8", "\\xA9", "\\xAA", "\\xAB", "\\xAC", "\\xAD", "\\xAE", "\\xAF",
       "\\xB0", "\\xB1", "\\xB2", "\\xB3", "\\xB4", "\\xB5", "\\xB6", "\\xB7",
       "\\xB8", "\\xB9", "\\xBA", "\\xBB", "\\xBC", "\\xBD", "\\xBE", "\\xBF",
       "\\xC0", "\\xC1", "\\xC2", "\\xC3", "\\xC4", "\\xC5", "\\xC6", "\\xC7",
       "\\xC8", "\\xC9", "\\xCA", "\\xCB", "\\xCC", "\\xCD", "\\xCE", "\\xCF",
       "\\xD0", "\\xD1", "\\xD2", "\\xD3", "\\xD4", "\\xD5", "\\xD6", "\\xD7",
       "\\xD8", "\\xD9", "\\xDA", "\\xDB", "\\xDC", "\\xDD", "\\xDE", "\\xDF",
       "\\xE0", "\\xE1", "\\xE2", "\\xE3", "\\xE4", "\\xE5", "\\xE6", "\\xE7",
       "\\xE8", "\\xE9", "\\xEA", "\\xEB", "\\xEC", "\\xED", "\\xEE", "\\xEF",
       "\\xF0", "\\xF1", "\\xF2", "\\xF3", "\\xF4", "\\xF5", "\\xF6", "\\xF7",
       "\\xF8", "\\xF9", "\\xFA", "\\xFB", "\\xFC", "\\xFD", "\\xFE", "\\xFF" >>

\* string(bytes)
stringOfBytes(bytes) == [i \in 1..Len(bytes) |-> byteChars[bytes[i] + 1]]

RECURSIVE Split(_, _)
\* strings.Split(s, sep) for a separator of one character
Split(str, sep) ==
    IF \E i \in 1..Len(str) : str[i] = sep
    THEN LET i == CHOOSE i \in 1..Len(str) : str[i] = sep /\ \A j \in 1..(i - 1) : str[j] # sep
         IN  <<SubSeq(str, 1, i - 1)>> \o Split(SubSeq(str, i + 1, Len(str)), sep)
    ELSE <<str>>

\* newFieldTag(s): [name, options]
newFieldTag(str) ==
    [name |-> Split(str, ",")[1], options |-> Tail(Split(str, ","))]

\* v.HasOption(option)
HasOption(v, option) == \E i \in 1..Len(v.options) : v.options[i] = option

\* the option "ascii"
ascii == <<"a", "s", "c", "i", "i">>

\* the value of a decimal digit, or -1 for any other character
digitValue(c) ==
    IF \E i \in 1..10 : lowerDigits[i] = c
    THEN (CHOOSE i \in 1..10 : lowerDigits[i] = c) - 1
    ELSE -1

RECURSIVE stripZeros(_)
\* the digits without leading zeros, "0" for zero
stripZeros(digits) ==
    IF Len(digits) > 1 /\ digits[1] = "0"
    THEN stripZeros(Tail(digits))
    ELSE digits

RECURSIVE numeralLess(_, _)
\* a < b for two numerals without leading zeros
numeralLess(a, b) ==
    IF Len(a) # Len(b)
    THEN Len(a) < Len(b)
    ELSE IF Len(a) = 0
    THEN FALSE
    ELSE IF a[1] # b[1]
    THEN digitValue(a[1]) < digitValue(b[1])
    ELSE numeralLess(Tail(a), Tail(b))

\* 1 << 63, the cutoff of strconv.ParseInt for 64 bits
cutoff63 ==
    <<"9", "2", "2", "3", "3", "7", "2", "0", "3", "6", "8", "5", "4", "7", "7", "5", "8", "0", "8">>

\* the strconv.NumError of ParseInt for the text str
numError(str, what) ==
    <<fmtText("strconv.ParseInt: parsing "), fmtVal(str), fmtText(what)>>

\* strconv.ParseInt accepting an empty digit string as 0
ParseIntEmptyIsZero(str) ==
    LET signed == Len(str) > 0 /\ str[1] \in {"+", "-"}
        neg == Len(str) > 0 /\ str[1] = "-"
        digits == IF signed THEN Tail(str) ELSE str
        n == stripZeros(digits)
    IN  IF \E i \in 1..Len(digits) : digitValue(digits[i]) = -1
        THEN [intVal |-> <<"0">>, err |-> numError(str, ": invalid syntax")]
        ELSE IF digits = <<>>
        THEN [intVal |-> <<"0">>, err |-> <<>>]
        ELSE IF (~neg /\ ~numeralLess(n, cutoff63)) \/ (neg /\ numeralLess(cutoff63, n))
        THEN [intVal |-> <<"0">>, err |-> numError(str, ": value out of range")]
        ELSE [intVal |-> IF neg /\ n # <<"0">> THEN <<"-">> \o n ELSE n, err |-> <<>>]

\* strconv.ParseInt(str, 10, 64): [intVal, err]
ParseInt(str) ==
    LET signed == Len(str) > 0 /\ str[1] \in {"+", "-"}
        neg == Len(str) > 0 /\ str[1] = "-"
        digits == IF signed THEN Tail(str) ELSE str
        n == stripZeros(digits)
    IN  IF digits = <<>> \/ \E i \in 1..Len(digits) : digitValue(digits[i]) = -1
        THEN [intVal |-> <<"0">>, err |-> numError(str, ": invalid syntax")]
        ELSE IF (~neg /\ ~numeralLess(n, cutoff63)) \/ (neg /\ numeralLess(cutoff63, n))
        THEN [intVal |-> <<"0">>, err |-> numError(str, ": value out of range")]
        ELSE [intVal |-> IF neg /\ n # <<"0">> THEN <<"-">> \o n ELSE n, err |-> <<>>]

\* a field of a record type
Field(name, bertlv, kind, fields) ==
    [Name |-> name, bertlv |-> bertlv, Kind |-> kind, Fields |-> fields]

\* the argument s of Unmarshal: a value of kind Kind; a pointer is nil or points to a
\* value of kind Elem, which for a struct has the type T and the field values v
PointerTo(type, value) ==
    [Kind |-> "pointer", IsNil |-> FALSE, Elem |-> "struct", T |-> type, v |-> value]

RECURSIVE tagToValueLoop(_, _, _)
\* the loop tagToValue[tlv.Tag] = tlv over the list from index i (counted from 1)
tagToValueLoop(list, i, m) ==
    IF i > Len(list)
    THEN m
    ELSE tagToValueLoop(list, i + 1,
            [key \in DOMAIN m \cup {list[i].Tag} |->
                IF key = list[i].Tag THEN list[i] ELSE m[key]])

RECURSIVE tagToValueFirstLoop(_, _, _)
\* the loop over the list keeping, for a tag, the node that came first
tagToValueFirstLoop(list, i, m) ==
    IF i > Len(list)
    THEN m
    ELSE tagToValueFirstLoop(list, i + 1,
            [key \in DOMAIN m \cup {list[i].Tag} |->
                IF key \in DOMAIN m THEN m[key] ELSE list[i]])

\* a lookup map holding, for a tag, the first node of the list with it
tagToValueFirst(list) == tagToValueFirstLoop(list, 1, <<>>)

RECURSIVE tagToValueNested(_)
\* a lookup map that also holds the nodes below the list, a node over its descendants
tagToValueNested(list) ==
    IF Len(list) = 0
    THEN <<>>
    ELSE LET below == tagToValueNested(list[Len(list)].TLVs)
             before == tagToValueNested(SubSeq(list, 1, Len(list) - 1))
             last == list[Len(list)]
         IN  [key \in DOMAIN below \cup DOMAIN before \cup {last.Tag} |->
                IF key = last.Tag THEN last
                ELSE IF key \in DOMAIN before THEN before[key]
                ELSE below[key]]

\* the lookup map of Unmarshal: tag -> node, of the nodes of the list
tagToValue(list) == tagToValueLoop(list, 1, <<>>)

\* the text of a string field in lower-case hex whatever the hint
fieldTextLowerHex(tag, value) == hexEncodeToString(value)

\* the text a string field is set to
fieldText(tag, value) ==
    IF HasOption(tag, ascii)
    THEN stringOfBytes(value)
    ELSE ToUpper(hexEncodeToString(value))

\* the text ParseInt is given for an int64 field
fieldDigits(tag, value) ==
    IF HasOption(tag, ascii)
    THEN stringOfBytes(value)
    ELSE ToUpper(hexEncodeToString(value))

RECURSIVE Unmarshal(_, _)
RECURSIVE unmarshalFields(_, _, _, _)
\* the loop of Unmarshal over the fields of the type from index i (counted from 1),
\* with the lookup map m and the field values v: [v, err]
unmarshalFields(m, type, v, i) ==
    IF i > Len(type)
    THEN [v |-> v, err |-> <<>>]
    ELSE LET typeField == type[i]
             tag == newFieldTag(typeField.bertlv)
         IN  IF tag.name = <<>>
             THEN unmarshalFields(m, type, v, i + 1)
             ELSE IF tag.name \notin DOMAIN m
             THEN unmarshalFields(m, type, v, i + 1)
             ELSE IF typeField.Kind = "struct"
             THEN LET r == Unmarshal(m[tag.name].TLVs, PointerTo(typeField.Fields, v[i]))
                  IN  IF r.err # <<>>
                      THEN [v |-> [v EXCEPT ![i] = r.v],
                            err |-> <<fmtText("unmarshalling nested field "),
                                      fmtVal(typeField.Name), fmtText(": ")>> \o r.err]
                      ELSE unmarshalFields(m, type, [v EXCEPT ![i] = r.v], i + 1)
             ELSE IF typeField.Kind = "bytes"
             THEN unmarshalFields(m, type, [v EXCEPT ![i] = m[tag.name].Value], i + 1)
             ELSE IF typeField.Kind = "string"
             THEN unmarshalFields(m, type,
                     [v EXCEPT ![i] = fieldText(tag, m[tag.name].Value)], i + 1)
             ELSE IF typeField.Kind = "int64"
             THEN LET p == ParseInt(fieldDigits(tag, m[tag.name].Value))
                  IN  IF p.err # <<>>
                      THEN [v |-> v,
                            err |-> <<fmtText("parsing int64 for field "),
                                      fmtVal(typeField.Name), fmtText(": ")>> \o p.err]
                      ELSE unmarshalFields(m, type, [v EXCEPT ![i] = p.intVal], i + 1)
             ELSE unmarshalFields(m, type, v, i + 1)

\* Unmarshal(tlvs, s): [v, err], v the field values of the record after the call
Unmarshal(list, sarg) ==
    IF sarg.Kind # "pointer" \/ sarg.IsNil
    THEN [v |-> sarg.v, err |-> <<fmtVal(sarg.Kind), fmtText(" is not a pointer or nil")>>]
    ELSE IF sarg.Elem # "struct"
    THEN [v |-> sarg.v, err |-> <<fmtVal(sarg.Elem), fmtText(" is not a struct, but")>>]
    ELSE unmarshalFields(tagToValue(list), sarg.T, sarg.v, 1)

(***************************************************************************)
(* Filtered copies.                                                        *)
(***************************************************************************)
\* make([]byte, len(value)) and copy into it, byte by byte; nil for no bytes
copyValue(value) ==
    IF Len(value) > 0
    THEN [j \in 1..Len(value) |-> value[j]]
    ELSE <<>>

RECURSIVE deepCopyTLVs(_)
\* the copy of a node that leaves its children behind
copiedTLVWithoutChildren(tlv) == TLV(tlv.Tag, copyValue(tlv.Value), <<>>)

\* copiedTLV of CopyTags and deepCopyTLVs: the tag, a copy of the value and a deep
\* copy of the children
copiedTLV(tlv) ==
    TLV(tlv.Tag,
        copyValue(tlv.Value),
        IF Len(tlv.TLVs) > 0 THEN deepCopyTLVs(tlv.TLVs) ELSE <<>>)

\* deepCopyTLVs(tlvs)
deepCopyTLVs(list) ==
    IF Len(list) = 0
    THEN <<>>
    ELSE [j \in 1..Len(list) |-> copiedTLV(list[j])]

RECURSIVE copyTagsLoop(_, _, _, _)
\* the loop of CopyTags over the list from index i (counted from 1), appending to
\* result the copy of every node whose tag is in tagsToCopy
copyTagsLoop(list, i, tagsToCopy, result) ==
    IF i > Len(list)
    THEN result
    ELSE IF list[i].Tag \in tagsToCopy
    THEN copyTagsLoop(list, i + 1, tagsToCopy, Append(result, copiedTLV(list[i])))
    ELSE copyTagsLoop(list, i + 1, tagsToCopy, result)

\* CopyTags(tlvs, tags...): [result, isNil], isNil telling the nil slice from an
\* empty one
CopyTags(list, tags) ==
    IF Len(list) = 0 \/ Len(tags) = 0
    THEN [result |-> <<>>, isNil |-> TRUE]
    ELSE LET tagsToCopy == {tags[j] : j \in 1..Len(tags)}
             result == copyTagsLoop(list, 1, tagsToCopy, <<>>)
         IN  IF Len(result) = 0
             THEN [result |-> <<>>, isNil |-> TRUE]
             ELSE [result |-> result, isNil |-> FALSE]

(***************************************************************************)
(* Filtered copies, with the arrays behind the slices.  The heap is a      *)
(* sequence of arrays, an address is an index into it and 0 is the nil     *)
(* slice.  A byte array holds numbers, a node array holds nodes whose      *)
(* Value and TLVs are addresses.  Every slice of the trees spans its whole *)
(* array: NewTag and NewComposite keep the slices they are given and       *)
(* CopyTags makes arrays of the length it fills.                           *)
(***************************************************************************)
\* a node in a node array
HNode(tag, value, children) == [Tag |-> tag, Value |-> value, TLVs |-> children]

\* make(...): a new array on the heap
alloc(h, array) == [heap |-> Append(h, array), addr |-> Len(h) + 1]

\* len(slice)
lenAt(h, a) == IF a = 0 THEN 0 ELSE Len(h[a])

\* copiedTLV.Value = tlv.Value: the copy keeps the array of the source
shareValueOnHeap(h, v) == [heap |-> h, addr |-> v]

\* if len(tlv.Value) > 0 { copiedTLV.Value = make([]byte, len(tlv.Value)); copy(...) }
copyValueOnHeap(h, v) ==
    IF lenAt(h, v) > 0
    THEN alloc(h, [j \in 1..Len(h[v]) |-> h[v][j]])
    ELSE [heap |-> h, addr |-> 0]

RECURSIVE deepCopyTLVsOnHeap(_, _)
\* copiedTLV of CopyTags and deepCopyTLVs: [heap, node]
copiedTLVOnHeap(h, tlv) ==
    LET value == copyValueOnHeap(h, tlv.Value)
        children == IF lenAt(value.heap, tlv.TLVs) > 0
                    THEN deepCopyTLVsOnHeap(value.heap, tlv.TLVs)
                    ELSE [heap |-> value.heap, addr |-> 0]
    IN  [heap |-> children.heap, node |-> HNode(tlv.Tag, value.addr, children.addr)]

RECURSIVE deepCopyLoop(_, _, _, _)
\* the loop of deepCopyTLVs over the array at a from index i (counted from 1)
deepCopyLoop(h, a, i, result) ==
    IF i > Len(h[a])
    THEN [heap |-> h, result |-> result]
    ELSE LET copied == copiedTLVOnHeap(h, h[a][i])
         IN  deepCopyLoop(copied.heap, a, i + 1, Append(result, copied.node))

\* deepCopyTLVs(tlvs): [heap, addr]
deepCopyTLVsOnHeap(h, a) ==
    IF lenAt(h, a) = 0
    THEN [heap |-> h, addr |-> 0]
    ELSE LET r == deepCopyLoop(h, a, 1, <<>>)
         IN  alloc(r.heap, r.result)

RECURSIVE copyTagsLoopOnHeap(_, _, _, _, _)
\* the loop of CopyTags over the array at a from index i (counted from 1)
copyTagsLoopOnHeap(h, a, i, tagsToCopy, result) ==
    IF i > Len(h[a])
    THEN [heap |-> h, result |-> result]
    ELSE IF h[a][i].Tag \in tagsToCopy
    THEN LET copied == copiedTLVOnHeap(h, h[a][i])
         IN  copyTagsLoopOnHeap(copied.heap, a, i + 1, tagsToCopy, Append(result, copied.node))
    ELSE copyTagsLoopOnHeap(h, a, i + 1, tagsToCopy, result)

\* CopyTags(tlvs, tags...) for the slice at a: [heap, addr]
CopyTagsOnHeap(h, a, tags) ==
    IF lenAt(h, a) = 0 \/ Len(tags) = 0
    THEN [heap |-> h, addr |-> 0]
    ELSE LET r == copyTagsLoopOnHeap(h, a, 1, {tags[j] : j \in 1..Len(tags)}, <<>>)
         IN  IF Len(r.result) = 0
             THEN [heap |-> r.heap, addr |-> 0]
             ELSE alloc(r.heap, r.result)

\* the bytes a value slice shows
bytesAt(h, v) == IF v = 0 THEN <<>> ELSE h[v]

RECURSIVE treeAt(_, _)
\* the tree a node slice shows
treeAt(h, a) ==
    IF a = 0
    THEN <<>>
    ELSE [j \in 1..Len(h[a]) |->
            TLV(h[a][j].Tag, bytesAt(h, h[a][j].Value), treeAt(h, h[a][j].TLVs))]

RECURSIVE nodeArraysOf(_, _)
\* the addresses of the node arrays a node slice reaches: its own and those of the
\* children of its nodes at any depth
nodeArraysOf(h, a) ==
    IF a = 0
    THEN {}
    ELSE {a} \cup UNION { nodeArraysOf(h, h[a][j].TLVs) : j \in 1..Len(h[a]) }

\* the addresses of the byte arrays a node slice reaches: the values of its nodes at
\* any depth
valueArraysOf(h, a) ==
    UNION { {h[p][j].Value : j \in 1..Len(h[p])} : p \in nodeArraysOf(h, a) } \ {0}

\* the addresses of the arrays a node slice reaches
arraysOf(h, a) == nodeArraysOf(h, a) \cup valueArraysOf(h, a)

RECURSIVE storeTree(_, _)
RECURSIVE storeNodes(_, _, _, _)
\* the nodes of the list from index i (counted from 1) laid out on the heap, the node
\* array itself at address a
storeNodes(h, a, list, i) ==
    IF i > Len(list)
    THEN h
    ELSE LET value == IF Len(list[i].Value) > 0
                      THEN alloc(h, list[i].Value)
                      ELSE [heap |-> h, addr |-> 0]
             children == storeTree(value.heap, list[i].TLVs)
             node == HNode(list[i].Tag, value.addr, children.addr)
         IN  storeNodes([children.heap EXCEPT ![a] = Append(@, node)], a, list, i + 1)

\* a tree laid out on the heap, as NewTag and NewComposite build it: [heap, addr]
storeTree(h, list) ==
    IF Len(list) = 0
    THEN [heap |-> h, addr |-> 0]
    ELSE LET array == alloc(h, <<>>)
         IN  [heap |-> storeNodes(array.heap, array.addr, list, 1), addr |-> array.addr]

(***************************************************************************)
(* Filters of sensitive values.                                            *)
(***************************************************************************)
\* slices.Clone(data): a new array with the bytes of data
slicesClone(bytes) == [j \in 1..Len(bytes) |-> bytes[j]]

stars == <<"*", "*", "*", "*">>

\* filterPan with the tail of filterTrack2Data: the digits from the 13th on
filterPanFrom12(bytes) ==
    LET clone == slicesClone(bytes)
        pan == hexEncodeToString(clone)
    IN  IF Len(pan) < 10
        THEN [text |-> pan, data |-> bytes]
        ELSE [text |-> SubSeq(pan, 1, 6) \o stars \o SubSeq(pan, 13, Len(pan)),
              data |-> bytes]

\* filterPan(data): [text, data], data being the caller's array after the call, which
\* is read once, by slices.Clone
filterPan(bytes) ==
    LET clone == slicesClone(bytes)
        pan == hexEncodeToString(clone)
    IN  IF Len(pan) < 10
        THEN [text |-> pan, data |-> bytes]
        ELSE [text |-> SubSeq(pan, 1, 6) \o stars \o SubSeq(pan, Len(pan) - 3, Len(pan)),
              data |-> bytes]

(***************************************************************************)
(* The inputs the model draws from.                                        *)
(***************************************************************************)
\* tag texts given to NewTag and NewComposite: a primitive tag, a constructed tag in
\* lower case, a two-byte constructed tag in mixed case, the tag 00, and a multi-byte
\* tag that lacks its second byte
TagTexts ==
    { <<"8", "4">>, <<"a", "5">>, <<"b", "f", "0", "C">>, <<"0", "0">>, <<"9", "F">> }

\* values given to NewTag
Values == { <<>>, <<1>> }

\* the bytes a buffer is built from: 00 (padding, the length 0), 01 and 02 (short
\* lengths), 81 (a primitive tag, the lead byte of a one-byte long-form length, a
\* continuation byte of a tag), A5 (a constructed tag) and 9F (the first byte of a
\* multi-byte tag)
Bytes == { 0, 1, 2, 129, 165, 159 }

\* the lengths of the long values of NewTag
LongLengths == { 127, 128, 256 }

\* the FCI template of TestEncodeDecode
FCITemplate ==
    << TLV(<<"6", "F">>, <<>>,
        << TLV(<<"8", "4">>,
               <<50, 80, 65, 89, 46, 83, 89, 83, 46, 68, 68, 70, 48, 49>>, <<>>),
           TLV(<<"A", "5">>, <<>>,
            << TLV(<<"B", "F", "0", "C">>, <<>>,
                << TLV(<<"6", "1">>, <<>>,
                    << TLV(<<"4", "F">>, <<160, 0, 0, 0, 4, 16, 16>>, <<>>),
                       TLV(<<"5", "0">>, <<77, 97, 115, 116, 101, 114, 99, 97, 114, 100>>, <<>>),
                       TLV(<<"8", "7">>, <<1>>, <<>>) >>) >>) >>) >>) >>

RECURSIVE HasLongValue(_)
\* some leaf of the tree has one of the long values
HasLongValue(list) ==
    \E i \in 1..Len(list) : Len(list[i].Value) > 2 \/ HasLongValue(list[i].TLVs)

RECURSIVE NodeCount(_)
\* the nodes of a tree, at every depth
NodeCount(list) ==
    IF Len(list) = 0
    THEN 0
    ELSE 1 + NodeCount(list[1].TLVs) + NodeCount(Tail(list))

(***************************************************************************)
(* The program: a caller that builds a tree or a buffer and then calls the *)
(* package.                                                                *)
(***************************************************************************)
Init ==
    /\ tlvs = <<>>
    /\ data = <<>>
    /\ calls = <<>>
    /\ tagMap = <<>>
    /\ target = <<>>
    /\ heap = <<>>

\* nothing has been called yet and no buffer is being built
BuildingTree == calls = <<>> /\ data = <<>>

\* a tree with a long value or the FCI template gets no further sibling
Short == ~HasLongValue(tlvs)

\* nothing has been called yet and no tree is being built
BuildingData == calls = <<>> /\ tlvs = <<>>

\* tlvs = append(tlvs, NewTag(tag, value))
NewTag(tag, value) ==
    /\ BuildingTree
    /\ NodeCount(tlvs) < MaxNodes
    /\ Short
    /\ tlvs' = Append(tlvs, TLV(tag, value, <<>>))
    /\ UNCHANGED <<data, calls, tagMap, target, heap>>

\* the last k nodes of tlvs become the children of NewComposite(tag, ...)
NewComposite(tag, k) ==
    /\ BuildingTree
    /\ NodeCount(tlvs) < MaxNodes
    /\ k <= Len(tlvs)
    /\ Short \/ k = Len(tlvs)
    /\ tlvs' = Append(SubSeq(tlvs, 1, Len(tlvs) - k),
                      TLV(tag, <<>>, SubSeq(tlvs, Len(tlvs) - k + 1, Len(tlvs))))
    /\ UNCHANGED <<data, calls, tagMap, target, heap>>

\* the literal TLV{Tag: tag, Value: value, TLVs: the last k nodes}: a node with both a
\* value and children, which the type allows
NewLiteral(tag, value, k) ==
    /\ BuildingTree
    /\ NodeCount(tlvs) < MaxNodes
    /\ Short
    /\ k >= 1 /\ k <= Len(tlvs)
    /\ value # <<>>
    /\ tlvs' = Append(SubSeq(tlvs, 1, Len(tlvs) - k),
                      TLV(tag, value, SubSeq(tlvs, Len(tlvs) - k + 1, Len(tlvs))))
    /\ UNCHANGED <<data, calls, tagMap, target, heap>>

\* a first leaf with a value of n bytes
NewLongTag(tag, n) ==
    /\ BuildingTree
    /\ tlvs = <<>>
    /\ tlvs' = <<TLV(tag, [i \in 1..n |-> i % 256], <<>>)>>
    /\ UNCHANGED <<data, calls, tagMap, target, heap>>

\* the tree of TestEncodeDecode
NewFCITemplate ==
    /\ BuildingTree
    /\ tlvs = <<>>
    /\ tlvs' = FCITemplate
    /\ UNCHANGED <<data, calls, tagMap, target, heap>>

\* data = append(data, b)
AppendByte(b) ==
    /\ BuildingData
    /\ Len(data) < MaxLen
    /\ data' = Append(data, b)
    /\ UNCHANGED <<tlvs, calls, tagMap, target, heap>>

\* after one tag byte, a long-form length field of k bytes: first, zeros, last
AppendLongLength(k, first, last) ==
    /\ BuildingData
    /\ Len(data) = 1
    /\ data' = data \o <<128 + k, first>> \o [i \in 1..(k - 2) |-> 0] \o <<last>>
    /\ UNCHANGED <<tlvs, calls, tagMap, target, heap>>

\* no call has stopped the program, and one more call may be made
CanCall ==
    /\ Len(calls) < MaxCalls
    /\ \A i \in 1..Len(calls) : ~calls[i].panic

\* data, err = Encode(tlvs)
CallEncode ==
    /\ CanCall
    /\ calls # <<>> => calls[Len(calls)].fn = "Decode"
    /\ LET r == Encode(tlvs)
       IN  /\ data' = r.encoded
           /\ calls' = Append(calls, [fn |-> "Encode", tlvs |-> tlvs, encoded |-> r.encoded,
                                      err |-> r.err, panic |-> FALSE])
    /\ UNCHANGED <<tlvs, tagMap, target, heap>>

\* tlvs, err = Decode(data)
CallDecode ==
    /\ CanCall
    /\ calls # <<>> => calls[Len(calls)].fn = "Encode"
    /\ LET r == Decode(data)
       IN  /\ tlvs' = r.tlvs
           /\ calls' = Append(calls, [fn |-> "Decode", data |-> data, tlvs |-> r.tlvs,
                                      err |-> r.err, panic |-> r.panic])
    /\ UNCHANGED <<data, tagMap, target, heap>>

\* encodeLength(n), called on its own
CallEncodeLength(n) ==
    /\ calls = <<>> /\ tlvs = <<>> /\ data = <<>>
    /\ calls' = <<[fn |-> "encodeLength", length |-> n, bytes |-> encodeLength(n),
                   panic |-> FALSE]>>
    /\ UNCHANGED <<tlvs, data, tagMap, target, heap>>

\* the lengths encodeLength is called with
Lengths == 0..300 \cup {65535, 65536, 16777215, 16777216, 2147483647}

Next ==
    \/ \E tag \in TagTexts, value \in Values : NewTag(tag, value)
    \/ \E tag \in TagTexts, k \in 0..MaxNodes : NewComposite(tag, k)
    \/ \E tag \in TagTexts, value \in Values, k \in 1..MaxNodes : NewLiteral(tag, value, k)
    \/ \E tag \in TagTexts, n \in LongLengths : NewLongTag(tag, n)
    \/ NewFCITemplate
    \/ \E b \in Bytes : AppendByte(b)
    \/ \E k \in {8, 9}, first \in {0, 1, 127, 255}, last \in {0, 1} : AppendLongLength(k, first, last)
    \/ CallEncode
    \/ CallDecode
    \/ \E n \in Lengths : CallEncodeLength(n)

Spec == Init /\ [][Next]_vars

(***************************************************************************)
(* The caller of the lookups: it builds a tree and looks a path up in it.  *)
(***************************************************************************)
\* tag texts of the trees the lookups search
LookupTags == { <<"8", "4">>, <<"A", "5">> }

RECURSIVE joinPath(_)
\* the segments joined by "."
joinPath(segments) ==
    IF Len(segments) = 1
    THEN segments[1]
    ELSE segments[1] \o <<".">> \o joinPath(Tail(segments))

\* segments a path may have
MaxSegments == 3

\* the paths looked up: every path of tags, a path that ends in a dot, the empty path
Paths ==
    {joinPath(segments) : segments \in UNION {[1..n -> LookupTags] : n \in 1..MaxSegments}}
        \cup { <<"A", "5", ".">>, <<>> }

\* tlvs = append(tlvs, NewComposite(tag, NewTag(child, value)))
NewCompositeOfTag(tag, child, value) ==
    /\ BuildingTree
    /\ NodeCount(tlvs) < MaxNodes
    /\ tlvs' = Append(tlvs, TLV(tag, <<>>, <<TLV(child, value, <<>>)>>))
    /\ UNCHANGED <<data, calls, tagMap, target, heap>>

\* tlv, found = FindTagByPath(tlvs, path)
CallFindTagByPath(path) ==
    /\ calls = <<>> /\ data = <<>>
    /\ LET r == FindTagByPath(tlvs, path)
       IN  calls' = <<[fn |-> "FindTagByPath", tlvs |-> tlvs, path |-> path,
                       tlv |-> r.tlv, found |-> r.found, panic |-> FALSE]>>
    /\ UNCHANGED <<tlvs, data, tagMap, target, heap>>

NextLookup ==
    \/ \E tag \in LookupTags, value \in Values : NewTag(tag, value)
    \/ \E tag \in LookupTags, k \in 0..MaxNodes : NewComposite(tag, k)
    \/ \E tag \in LookupTags, child \in LookupTags, value \in Values :
           NewCompositeOfTag(tag, child, value)
    \/ \E path \in Paths : CallFindTagByPath(path)

SpecLookup == Init /\ [][NextLookup]_vars

(***************************************************************************)
(* The caller of the index: it builds a tree, may search it with           *)
(* FindFirstTag, builds the tag map from it and reads the map.             *)
(***************************************************************************)
\* the tree of TestGetTagMapStatsWithDuplicates
DuplicateTagsTree ==
    << TLV(<<"7", "0">>, <<>>, << TLV(<<"9", "F", "1", "0">>, <<1>>, <<>>) >>),
       TLV(<<"7", "7">>, <<>>, << TLV(<<"9", "F", "1", "0">>, <<2>>, <<>>) >>),
       TLV(<<"8", "0">>, <<>>, << TLV(<<"9", "F", "1", "0">>, <<3>>, <<>>) >>) >>

\* the tags searched for: the tags of the built trees and the repeated tag of the test
SearchTags == LookupTags \cup { <<"9", "F", "1", "0">> }

\* tlvs = the tree of TestGetTagMapStatsWithDuplicates
NewDuplicateTagsTree ==
    /\ BuildingTree
    /\ tlvs = <<>>
    /\ tlvs' = DuplicateTagsTree
    /\ UNCHANGED <<data, calls, tagMap, target, heap>>

\* tlv, found = FindFirstTag(tlvs, tag), before any other call
CallFindFirstTag(tag) ==
    /\ calls = <<>> /\ data = <<>>
    /\ LET r == FindFirstTag(tlvs, tag)
       IN  calls' = <<[fn |-> "FindFirstTag", tlvs |-> tlvs, tag |-> tag,
                       tlv |-> r.tlv, found |-> r.found, panic |-> FALSE]>>
    /\ UNCHANGED <<tlvs, data, tagMap, target, heap>>

\* tagMap = BuildTagMap(tlvs), before any read of the map
CallBuildTagMap ==
    /\ CanCall /\ data = <<>>
    /\ \A i \in 1..Len(calls) : calls[i].fn \in {"FindFirstTag", "BuildTagMap"}
    /\ tagMap' = BuildTagMap(tlvs)
    /\ calls' = Append(calls, [fn |-> "BuildTagMap", tlvs |-> tlvs,
                               tagMap |-> BuildTagMap(tlvs), panic |-> FALSE])
    /\ UNCHANGED <<tlvs, data, target, heap>>

\* the map has just been built and one more call may be made
CanRead ==
    /\ CanCall
    /\ calls # <<>>
    /\ calls[Len(calls)].fn = "BuildTagMap"

\* tlv, found = FindFirst(tagMap, tag)
CallFindFirst(tag) ==
    /\ CanRead
    /\ LET r == FindFirst(tagMap, tag)
       IN  calls' = Append(calls, [fn |-> "FindFirst", tlvs |-> tlvs, tagMap |-> tagMap,
                                   tag |-> tag, tlv |-> r.tlv, found |-> r.found,
                                   panic |-> FALSE])
    /\ UNCHANGED <<tlvs, data, tagMap, target, heap>>

\* instances, found = Find(tagMap, tag)
CallFind(tag) ==
    /\ CanRead
    /\ LET r == Find(tagMap, tag)
       IN  calls' = Append(calls, [fn |-> "Find", tlvs |-> tlvs, tagMap |-> tagMap,
                                   tag |-> tag, instances |-> r.tlvs, found |-> r.found,
                                   panic |-> FALSE])
    /\ UNCHANGED <<tlvs, data, tagMap, target, heap>>

\* stats = GetTagMapStats(tagMap)
CallGetTagMapStats ==
    /\ CanRead
    /\ calls' = Append(calls, [fn |-> "GetTagMapStats", tlvs |-> tlvs, tagMap |-> tagMap,
                               stats |-> GetTagMapStats(tagMap), panic |-> FALSE])
    /\ UNCHANGED <<tlvs, data, tagMap, target, heap>>

NextIndex ==
    \/ \E tag \in LookupTags, value \in Values : NewTag(tag, value)
    \/ \E tag \in LookupTags, k \in 0..MaxNodes : NewComposite(tag, k)
    \/ NewDuplicateTagsTree
    \/ \E tag \in SearchTags : CallFindFirstTag(tag)
    \/ CallBuildTagMap
    \/ \E tag \in SearchTags : CallFindFirst(tag)
    \/ \E tag \in SearchTags : CallFind(tag)
    \/ CallGetTagMapStats

SpecIndex == Init /\ [][NextIndex]_vars

(***************************************************************************)
(* Concurrent readers of one tag map.  The map is built once; after that   *)
(* every call in calls is a goroutine of its own, which reads the shared   *)
(* map one access at a time: pc tells where it stands.  FindFirst and Find *)
(* read the map once, GetTagMapStats once for len(tagMap) and once per     *)
(* entry of its range loop, in whatever order range takes the entries.     *)
(***************************************************************************)
\* goroutines that read the map
MaxReaders == 2

\* the tree of TestFind
FindTree ==
    << TLV(<<"7", "0">>, <<>>, << TLV(<<"9", "F", "1", "0">>, <<1>>, <<>>) >>),
       TLV(<<"7", "7">>, <<>>, << TLV(<<"9", "F", "1", "0">>, <<2>>, <<>>) >>) >>

\* tlvs = the tree of TestFind
NewFindTree ==
    /\ BuildingTree
    /\ tlvs = <<>>
    /\ tlvs' = FindTree
    /\ UNCHANGED <<data, calls, tagMap, target, heap>>

\* the tags the readers look up: one that occurs in the trees and one that does not
ReaderTags == { <<"9", "F", "1", "0">>, <<"8", "4">> }

\* the map is built and one more goroutine may be started
CanGo ==
    /\ calls # <<>> /\ calls[1].fn = "BuildTagMap"
    /\ Len(calls) - 1 < MaxReaders

\* go FindFirst(tagMap, tag)
GoFindFirst(tag) ==
    /\ CanGo
    /\ calls' = Append(calls, [fn |-> "FindFirst", tag |-> tag, pc |-> "lookup",
                               tlv |-> TLV(<<>>, <<>>, <<>>), found |-> FALSE,
                               panic |-> FALSE])
    /\ UNCHANGED <<tlvs, data, tagMap, target, heap>>

\* go Find(tagMap, tag)
GoFind(tag) ==
    /\ CanGo
    /\ calls' = Append(calls, [fn |-> "Find", tag |-> tag, pc |-> "lookup",
                               instances |-> <<>>, found |-> FALSE, panic |-> FALSE])
    /\ UNCHANGED <<tlvs, data, tagMap, target, heap>>

\* go GetTagMapStats(tagMap)
GoGetTagMapStats ==
    /\ CanGo
    /\ calls' = Append(calls, [fn |-> "GetTagMapStats", pc |-> "len", visited |-> {},
                               stats |-> newTagMapStats(emptyTagMap), panic |-> FALSE])
    /\ UNCHANGED <<tlvs, data, tagMap, target, heap>>

\* goroutine i is at pc
At(i, fn, pc) == i \in 2..Len(calls) /\ calls[i].fn = fn /\ calls[i].pc = pc

\* goroutine i: instances, found := tagMap[tag], and the return of FindFirst
LookupFindFirst(i) ==
    /\ At(i, "FindFirst", "lookup")
    /\ LET r == FindFirst(tagMap, calls[i].tag)
       IN  calls' = [calls EXCEPT ![i].tlv = r.tlv, ![i].found = r.found,
                                  ![i].pc = "done"]
    /\ UNCHANGED <<tlvs, data, tagMap, target, heap>>

\* goroutine i: instances, found := tagMap[tag], and the return of Find
LookupFind(i) ==
    /\ At(i, "Find", "lookup")
    /\ LET r == Find(tagMap, calls[i].tag)
       IN  calls' = [calls EXCEPT ![i].instances = r.tlvs, ![i].found = r.found,
                                  ![i].pc = "done"]
    /\ UNCHANGED <<tlvs, data, tagMap, target, heap>>

\* goroutine i: stats := TagMapStats{UniqueTags: len(tagMap)}
LenGetTagMapStats(i) ==
    /\ At(i, "GetTagMapStats", "len")
    /\ calls' = [calls EXCEPT ![i].stats = newTagMapStats(tagMap), ![i].pc = "range"]
    /\ UNCHANGED <<tlvs, data, tagMap, target, heap>>

\* one round of the range loop that forgets the entry it was given
rangeRoundSkipsEntry(call, m, tag) ==
    [call EXCEPT !.visited = @ \cup {tag}]

\* one round of the range loop of a goroutine in GetTagMapStats, for the entry of tag
rangeRound(call, m, tag) ==
    [call EXCEPT !.stats = statsOfEntry(@, tag, m[tag]), !.visited = @ \cup {tag}]

\* goroutine i: one round of the range loop, for an entry not visited yet
RangeGetTagMapStats(i, tag) ==
    /\ At(i, "GetTagMapStats", "range")
    /\ tag \in DOMAIN tagMap \ calls[i].visited
    /\ calls' = [calls EXCEPT ![i] = rangeRound(calls[i], tagMap, tag)]
    /\ UNCHANGED <<tlvs, data, tagMap, target, heap>>

\* goroutine i: the range loop is over, return stats
ReturnGetTagMapStats(i) ==
    /\ At(i, "GetTagMapStats", "range")
    /\ DOMAIN tagMap \ calls[i].visited = {}
    /\ calls' = [calls EXCEPT ![i].pc = "done"]
    /\ UNCHANGED <<tlvs, data, tagMap, target, heap>>

\* the keys a map of the trees may hold
ReaderKeys == { <<"7", "0">>, <<"7", "7">>, <<"8", "0">>, <<"9", "F", "1", "0">> }

NextReaders ==
    \/ NewDuplicateTagsTree
    \/ NewFindTree
    \/ (calls = <<>> /\ CallBuildTagMap)
    \/ \E tag \in ReaderTags : GoFindFirst(tag)
    \/ \E tag \in ReaderTags : GoFind(tag)
    \/ GoGetTagMapStats
    \/ \E i \in 2..(MaxReaders + 1) : LookupFindFirst(i)
    \/ \E i \in 2..(MaxReaders + 1) : LookupFind(i)
    \/ \E i \in 2..(MaxReaders + 1) : LenGetTagMapStats(i)
    \/ \E i \in 2..(MaxReaders + 1), tag \in ReaderKeys : RangeGetTagMapStats(i, tag)
    \/ \E i \in 2..(MaxReaders + 1) : ReturnGetTagMapStats(i)

SpecReaders == Init /\ [][NextReaders]_vars

(***************************************************************************)
(* The caller of the struct mapper: it builds a tree and calls Unmarshal   *)
(* with a pointer to a record of one of a few types, fresh or with values  *)
(* already in its fields.                                                  *)
(***************************************************************************)
\* the tag 84, the tag 84 with the hint, the tag 61
bertlv84 == <<"8", "4">>

bertlv84ascii == <<"8", "4", ",", "a", "s", "c", "i", "i">>

bertlv61 == <<"6", "1">>

\* type EMVData of TestUnmarshalSuccess
EMVData ==
    << Field("DedicatedFileName", bertlv84, "bytes", <<>>),
       Field("ApplicationTemplate", bertlv61, "struct",
          << Field("ApplicationID", <<"4", "F">>, "string", <<>>),
             Field("ApplicationLabel", <<"5", "0", ",", "a", "s", "c", "i", "i">>, "string", <<>>),
             Field("ApplicationPriorityIndicator", <<"8", "7">>, "bytes", <<>>) >>),
       Field("AmountAuthorized", <<"9", "F", "0", "2">>, "int64", <<>>),
       Field("AmountOther", <<"9", "F", "0", "3", ",", "a", "s", "c", "i", "i">>, "int64", <<>>) >>

\* type MissingTag of TestUnmarshalEdgeCases
MissingTag ==
    << Field("Field", <<"9", "9">>, "bytes", <<>>),
       Field("Field2", <<>>, "bytes", <<>>) >>

\* struct { Raw []byte `bertlv:"84"`; Hex string `bertlv:"84"`;
\*          Text string `bertlv:"84,ascii"`; Flag bool `bertlv:"84"` }
Texts ==
    << Field("Raw", bertlv84, "bytes", <<>>),
       Field("Hex", bertlv84, "string", <<>>),
       Field("Text", bertlv84ascii, "string", <<>>),
       Field("Flag", bertlv84, "bool", <<>>) >>

\* struct { AmountOther int64 `bertlv:"84,ascii"`; Amount int64 `bertlv:"84"` }
Amounts ==
    << Field("AmountOther", bertlv84ascii, "int64", <<>>),
       Field("Amount", bertlv84, "int64", <<>>) >>

\* struct { Field []byte `bertlv:"84"`
\*          Template struct { Label string `bertlv:"84,ascii"`
\*                            Amount int64 `bertlv:"84"` } `bertlv:"61"`
\*          Last int64 `bertlv:"84,ascii"` }
Nested ==
    << Field("Field", bertlv84, "bytes", <<>>),
       Field("Template", bertlv61, "struct",
          << Field("Label", bertlv84ascii, "string", <<>>),
             Field("Amount", bertlv84, "int64", <<>>) >>),
       Field("Last", bertlv84ascii, "int64", <<>>) >>

\* the record types Unmarshal is called with
RecordTypes == << EMVData, MissingTag, Texts, Amounts, Nested >>

RECURSIVE Zero(_)
\* the zero value of a record type
Zero(type) ==
    [i \in 1..Len(type) |->
        IF type[i].Kind = "struct" THEN Zero(type[i].Fields)
        ELSE IF type[i].Kind = "int64" THEN <<"0">>
        ELSE IF type[i].Kind = "bool" THEN FALSE
        ELSE <<>>]

RECURSIVE Preset(_)
\* a record whose fields all hold a value already
Preset(type) ==
    [i \in 1..Len(type) |->
        IF type[i].Kind = "struct" THEN Preset(type[i].Fields)
        ELSE IF type[i].Kind = "int64" THEN <<"7">>
        ELSE IF type[i].Kind = "bool" THEN TRUE
        ELSE IF type[i].Kind = "string" THEN <<"X">>
        ELSE <<9>>]

\* arguments that are no pointer to a record: a nil pointer (TestUnmarshalEdgeCases),
\* a record passed by value, a pointer to an int64
BadTargets ==
    { [Kind |-> "pointer", IsNil |-> TRUE, Elem |-> "struct", T |-> <<>>, v |-> <<>>],
      [Kind |-> "struct", IsNil |-> FALSE, Elem |-> "", T |-> <<>>, v |-> <<>>],
      [Kind |-> "pointer", IsNil |-> FALSE, Elem |-> "int64", T |-> <<>>, v |-> <<>>] }

\* the values of the leaves: empty, the digit "5", the text "-5", the byte 12 (two
\* decimal hex digits, no ASCII digit) and the byte A1 (no decimal digits either way)
LeafValues == { <<>>, <<53>>, <<45, 53>>, <<18>>, <<161>> }

\* the tree of TestUnmarshalSuccess
UnmarshalData ==
    << TLV(<<"8", "4">>, <<50, 80, 65, 89, 46, 83, 89, 83, 46, 68, 68, 70, 48, 49>>, <<>>),
       TLV(<<"6", "1">>, <<>>,
          << TLV(<<"4", "F">>, <<160, 0, 0, 0, 4, 16, 16>>, <<>>),
             TLV(<<"5", "0">>, <<77, 97, 115, 116, 101, 114, 99, 97, 114, 100>>, <<>>),
             TLV(<<"8", "7">>, <<1>>, <<>>) >>),
       TLV(<<"9", "F", "0", "2">>, <<0, 0, 0, 0, 18, 52>>, <<>>),
       TLV(<<"9", "F", "0", "3">>, <<53, 54, 55, 56>>, <<>>) >>

\* tlvs = the tree of TestUnmarshalSuccess
NewUnmarshalData ==
    /\ BuildingTree
    /\ tlvs = <<>>
    /\ tlvs' = UnmarshalData
    /\ UNCHANGED <<data, calls, tagMap, target, heap>>

\* err = Unmarshal(tlvs, s)
CallUnmarshal(sarg) ==
    /\ calls = <<>> /\ data = <<>>
    /\ LET r == Unmarshal(tlvs, sarg)
       IN  /\ target' = [sarg EXCEPT !.v = r.v]
           /\ calls' = <<[fn |-> "Unmarshal", tlvs |-> tlvs, s |-> sarg, v |-> r.v,
                          err |-> r.err, panic |-> FALSE]>>
    /\ UNCHANGED <<tlvs, data, tagMap, heap>>

\* record := &type{} (zeroed) or a record with every field set; err = Unmarshal(tlvs, record)
CallUnmarshalRecord(type, preset) ==
    /\ target = <<>>
    /\ CallUnmarshal(PointerTo(type, IF preset THEN Preset(type) ELSE Zero(type)))

NextUnmarshal ==
    \/ \E value \in LeafValues : NewTag(bertlv84, value)
    \/ \E k \in 0..MaxNodes : NewComposite(bertlv61, k)
    \/ NewUnmarshalData
    \/ \E t \in 1..Len(RecordTypes), preset \in BOOLEAN :
           CallUnmarshalRecord(RecordTypes[t], preset)
    \/ \E sarg \in BadTargets : CallUnmarshal(sarg)

SpecUnmarshal == Init /\ [][NextUnmarshal]_vars

(***************************************************************************)
(* The caller of CopyTags: it builds a tree and asks for a copy of the     *)
(* nodes with some tags.                                                   *)
(***************************************************************************)
\* the input of the case "Multiple nested and flat matches" of TestCopyTags
CopyTagsInput ==
    << TLV(<<"6", "F">>, <<>>,
          << TLV(<<"8", "4">>, <<50, 80, 65, 89, 46, 83, 89, 83, 46, 68, 68, 70, 48, 49>>, <<>>),
             TLV(<<"A", "5">>, <<>>,
                << TLV(<<"5", "0">>, <<77, 97, 115, 116, 101, 114, 99, 97, 114, 100>>, <<>>) >>) >>),
       TLV(<<"9", "F", "0", "2">>, <<0, 0, 0, 1, 35, 69>>, <<>>),
       TLV(<<"5", "A">>, <<65, 17, 34, 51, 68, 85, 102, 119>>, <<>>) >>

\* tlvs = the input of TestCopyTags
NewCopyTagsInput ==
    /\ BuildingTree
    /\ tlvs = <<>>
    /\ tlvs' = CopyTagsInput
    /\ UNCHANGED <<data, calls, tagMap, target, heap>>

\* the tag lists CopyTags is called with: none, one tag, two tags, a tag twice, the
\* tags of TestCopyTags, tags no node has
TagLists ==
    { <<>>,
      << <<"8", "4">> >>,
      << <<"A", "5">> >>,
      << <<"A", "5">>, <<"8", "4">> >>,
      << <<"8", "4">>, <<"8", "4">> >>,
      << <<"6", "F">>, <<"9", "F", "0", "2">> >>,
      << <<"9", "F", "0", "3">>, <<"9", "F", "0", "6">> >> }

\* result = CopyTags(tlvs, tags...)
CallCopyTags(tags) ==
    /\ calls = <<>> /\ data = <<>>
    /\ LET r == CopyTags(tlvs, tags)
       IN  calls' = <<[fn |-> "CopyTags", tlvs |-> tlvs, tags |-> tags,
                       result |-> r.result, isNil |-> r.isNil, panic |-> FALSE]>>
    /\ UNCHANGED <<tlvs, data, tagMap, target, heap>>

NextCopy ==
    \/ \E tag \in LookupTags, value \in Values : NewTag(tag, value)
    \/ \E tag \in LookupTags, k \in 0..MaxNodes : NewComposite(tag, k)
    \/ NewCopyTagsInput
    \/ \E tags \in TagLists : CallCopyTags(tags)

SpecCopy == Init /\ [][NextCopy]_vars

(***************************************************************************)
(* The caller of CopyTags that writes to the trees afterwards: it builds a *)
(* tree, asks for a copy and then stores bytes and nodes into the arrays   *)
(* of the tree or of the copy.                                             *)
(***************************************************************************)
\* stores made after CopyTags has returned
MaxStores == 2

\* the trees the caller builds: inputs of TestCopyTags cut to a few bytes, a leaf
\* without value, equal tags at two depths
SourceTrees ==
    { << TLV(<<"5", "A">>, <<65, 17>>, <<>>), TLV(<<"8", "4">>, <<>>, <<>>) >>,
      << TLV(<<"6", "F">>, <<>>,
            << TLV(<<"8", "4">>, <<50>>, <<>>),
               TLV(<<"A", "5">>, <<>>, << TLV(<<"5", "0">>, <<77, 97>>, <<>>) >>) >>),
         TLV(<<"9", "F", "0", "2">>, <<0, 1>>, <<>>) >>,
      << TLV(<<"A", "5">>, <<>>, << TLV(<<"8", "4">>, <<1>>, <<>>) >>),
         TLV(<<"8", "4">>, <<2>>, <<>>) >> }

\* the tag lists of the calls
SourceTags ==
    { <<>>,
      << <<"8", "4">> >>,
      << <<"5", "A">>, <<"A", "5">> >>,
      << <<"6", "F">>, <<"9", "F", "0", "2">> >> }

\* the address of the tree the caller built
SourceAddr == IF heap = <<>> THEN 0 ELSE 1

\* the tree is built
NewSourceTree(tree) ==
    /\ calls = <<>> /\ heap = <<>>
    /\ heap' = storeTree(<<>>, tree).heap
    /\ UNCHANGED <<tlvs, data, calls, tagMap, target>>

\* result = CopyTags(tlvs, tags...), the record keeping the address of each list and
\* what the source showed before (tlvs) and after, and what the copy showed
CallCopyTagsOnHeap(tags) ==
    /\ calls = <<>>
    /\ LET r == CopyTagsOnHeap(heap, SourceAddr, tags)
       IN  /\ heap' = r.heap
           /\ calls' = <<[fn |-> "CopyTags", tags |-> tags,
                          src |-> SourceAddr, tlvs |-> treeAt(heap, SourceAddr),
                          after |-> treeAt(r.heap, SourceAddr),
                          result |-> r.addr, copy |-> treeAt(r.heap, r.addr),
                          panic |-> FALSE]>>
    /\ UNCHANGED <<tlvs, data, tagMap, target>>

\* CopyTags has returned and the caller may store
CanStore ==
    /\ calls # <<>>
    /\ calls[1].fn = "CopyTags"
    /\ Len(calls) <= MaxStores

\* the list the caller goes through: the source tree or the copy
ListOf(side) == IF side = "source" THEN calls[1].src ELSE calls[1].result

\* node.Value[i] = b, for a node of the source tree or of the copy at any depth
StoreValueByte(side, a, i, b) ==
    /\ CanStore
    /\ a \in valueArraysOf(heap, ListOf(side))
    /\ i \in 1..Len(heap[a])
    /\ heap' = [heap EXCEPT ![a][i] = b]
    /\ calls' = Append(calls, [fn |-> "store", side |-> side, panic |-> FALSE])
    /\ UNCHANGED <<tlvs, data, tagMap, target>>

\* list[i] = NewTag(tag, nil), for the source list, the copy or the children of a node
\* of them at any depth
StoreNode(side, a, i, tag) ==
    /\ CanStore
    /\ a \in nodeArraysOf(heap, ListOf(side))
    /\ i \in 1..Len(heap[a])
    /\ heap' = [heap EXCEPT ![a][i] = HNode(tag, 0, 0)]
    /\ calls' = Append(calls, [fn |-> "store", side |-> side, panic |-> FALSE])
    /\ UNCHANGED <<tlvs, data, tagMap, target>>

\* the addresses and indexes a store may name
MaxAddr == 12

NextAlias ==
    \/ \E tree \in SourceTrees : NewSourceTree(tree)
    \/ \E tags \in SourceTags : CallCopyTagsOnHeap(tags)
    \/ \E side \in {"source", "copy"}, a \in 1..MaxAddr, i \in 1..2 :
           StoreValueByte(side, a, i, 255)
    \/ \E side \in {"source", "copy"}, a \in 1..MaxAddr, i \in 1..2 :
           StoreNode(side, a, i, <<"5", "A">>)

SpecAlias == Init /\ [][NextAlias]_vars

(***************************************************************************)
(* The caller of filterPan: it holds the value of a PAN and asks for its   *)
(* filtered text.                                                          *)
(***************************************************************************)
\* bytes a PAN built byte by byte may hold
MaxPanLen == 6

\* the bytes a PAN is built from: two pairs of decimal digits and a pair with the
\* padding digit F
PanBytes == { 84, 18, 63 }

\* the PAN of TestFilterPan, 5432121234561437
TestPan == <<84, 50, 18, 18, 52, 86, 20, 55>>

\* data = append(data, b)
AppendPanByte(b) ==
    /\ calls = <<>>
    /\ Len(data) < MaxPanLen
    /\ data' = Append(data, b)
    /\ UNCHANGED <<tlvs, calls, tagMap, target, heap>>

\* pan, err := hex.DecodeString("5432121234561437")
NewTestPan ==
    /\ calls = <<>>
    /\ data = <<>>
    /\ data' = TestPan
    /\ UNCHANGED <<tlvs, calls, tagMap, target, heap>>

\* filteredPan := filterPan(pan)
CallFilterPan ==
    /\ calls = <<>>
    /\ LET r == filterPan(data)
       IN  /\ data' = r.data
           /\ calls' = <<[fn |-> "filterPan", data |-> data, text |-> r.text,
                          after |-> r.data, panic |-> FALSE]>>
    /\ UNCHANGED <<tlvs, tagMap, target, heap>>

NextFilter ==
    \/ \E b \in PanBytes : AppendPanByte(b)
    \/ NewTestPan
    \/ CallFilterPan

SpecFilter == Init /\ [][NextFilter]_vars

(***************************************************************************)
(* The caller of decodeLength: it builds a buffer, or has a length         *)
(* encoded, and has the length field read back.                            *)
(***************************************************************************)
\* data = a long-form length field of k bytes: the lead byte, first, zeros, last
NewLongLength(k, first, last) ==
    /\ BuildingData
    /\ data = <<>>
    /\ data' = <<128 + k, first>> \o [i \in 1..(k - 2) |-> 0] \o <<last>>
    /\ UNCHANGED <<tlvs, calls, tagMap, target, heap>>

\* length, read, err := decodeLength(data)
CallDecodeLength ==
    /\ calls = <<>>
    /\ LET r == decodeLength(data)
       IN  calls' = <<[fn |-> "decodeLength", data |-> data, length |-> r.length,
                       read |-> r.read, err |-> r.err, panic |-> FALSE]>>
    /\ UNCHANGED <<tlvs, data, tagMap, target, heap>>

\* length, read, err := decodeLength(encodeLength(n)), after encodeLength(n)
CallDecodeLengthOfEncoded ==
    /\ Len(calls) = 1
    /\ calls[1].fn = "encodeLength"
    /\ LET r == decodeLength(calls[1].bytes)
       IN  calls' = Append(calls, [fn |-> "decodeLength", data |-> calls[1].bytes,
                                   length |-> r.length, read |-> r.read, err |-> r.err,
                                   panic |-> FALSE])
    /\ UNCHANGED <<tlvs, data, tagMap, target, heap>>

NextLength ==
    \/ \E b \in Bytes : AppendByte(b)
    \/ \E k \in {2, 3, 8, 9}, first \in {0, 1, 127, 255}, last \in {0, 1} :
           NewLongLength(k, first, last)
    \/ \E n \in Lengths : CallEncodeLength(n)
    \/ CallDecodeLength
    \/ CallDecodeLengthOfEncoded

SpecLength == Init /\ [][NextLength]_vars

(***************************************************************************)
(* The caller of the tag grammar: it builds the bytes of a tag and has     *)
(* them validated, read as a tag, or encoded as the tag of a node and      *)
(* decoded again.                                                          *)
(***************************************************************************)
\* err := validateTag(tag), for the bytes built
CallValidateTag ==
    /\ calls = <<>> /\ tlvs = <<>>
    /\ calls' = <<[fn |-> "validateTag", tag |-> data, err |-> validateTag(data),
                   panic |-> FALSE]>>
    /\ UNCHANGED <<tlvs, data, tagMap, target, heap>>

\* tag, read, err := decodeTag(data), for the bytes validateTag was given
CallDecodeTag ==
    /\ Len(calls) = 1
    /\ calls[1].fn = "validateTag"
    /\ LET r == decodeTag(data)
       IN  calls' = Append(calls, [fn |-> "decodeTag", data |-> data, tag |-> r.tag,
                                   read |-> r.read, err |-> r.err, panic |-> FALSE])
    /\ UNCHANGED <<tlvs, data, tagMap, target, heap>>

\* data, err = Encode([]TLV{NewTag(hex.EncodeToString(tag), value)}), for the bytes built
CallEncodeTag(value) ==
    /\ calls = <<>> /\ tlvs = <<>>
    /\ LET list == <<TLV(hexEncodeToString(data), value, <<>>)>>
           r == Encode(list)
       IN  /\ tlvs' = list
           /\ data' = r.encoded
           /\ calls' = <<[fn |-> "Encode", tag |-> data, tlvs |-> list,
                          encoded |-> r.encoded, err |-> r.err, panic |-> FALSE]>>
    /\ UNCHANGED <<tagMap, target, heap>>

NextTag ==
    \/ \E b \in Bytes : AppendByte(b)
    \/ CallValidateTag
    \/ CallDecodeTag
    \/ \E value \in Values : CallEncodeTag(value)
    \/ CallDecode

SpecTag == Init /\ [][NextTag]_vars

(***************************************************************************)
(* The caller of Decode, seen while Decode runs: it builds a buffer and    *)
(* calls Decode, which then takes one loop iteration or one return at a    *)
(* time.  Nothing else runs meanwhile, so a call that can step does step.  *)
(***************************************************************************)
StepBytes == {0, 1, 2, 165}

\* tlvs, err := Decode(data) is entered
EnterDecode ==
    /\ calls = <<>> /\ tlvs = <<>>
    /\ calls' = <<[fn |-> "Decode", data |-> data, pc |-> "loop",
                   frames |-> <<DecodeFrame(data)>>, tlvs |-> <<>>, err |-> <<>>,
                   panic |-> FALSE]>>
    /\ UNCHANGED <<tlvs, data, tagMap, target, heap>>

\* a call of Decode has been entered and has not returned
Decoding == calls # <<>> /\ calls[1].pc = "loop"

\* for len(data) > 0 { ... }, once
IterateDecode ==
    /\ Decoding
    /\ Len(calls[1].frames[Len(calls[1].frames)].data) > 0
    /\ calls' = <<decodeIteration(calls[1])>>
    /\ UNCHANGED <<tlvs, data, tagMap, target, heap>>

\* return tlvs, nil
ReturnDecode ==
    /\ Decoding
    /\ Len(calls[1].frames[Len(calls[1].frames)].data) = 0
    /\ calls' = <<decodeReturn(calls[1])>>
    /\ UNCHANGED <<tlvs, data, tagMap, target, heap>>

NextSteps ==
    \/ \E b \in StepBytes : AppendByte(b)
    \/ \E k \in {8, 9}, first \in {1, 255}, last \in {0, 1} : AppendLongLength(k, first, last)
    \/ EnterDecode
    \/ IterateDecode
    \/ ReturnDecode

SpecSteps ==
    Init /\ [][NextSteps]_vars /\ WF_vars(IterateDecode) /\ WF_vars(ReturnDecode)

(***************************************************************************)
(* What the claims speak of.                                               *)
(***************************************************************************)
\* the calls of fn made so far
CallsOf(fn) == {i \in 1..Len(calls) : calls[i].fn = fn}

\* call i + 1 was made and is a call of fn
Followed(i, fn) == i < Len(calls) /\ calls[i + 1].fn = fn

RECURSIVE NodesOf(_)
\* the nodes of a tree, at every depth
NodesOf(list) ==
    UNION {{list[i]} \cup NodesOf(list[i].TLVs) : i \in 1..Len(list)}

RECURSIVE Normalized(_)
\* the tree with every tag text in upper case
Normalized(list) ==
    [i \in 1..Len(list) |->
        TLV(ToUpper(list[i].Tag), list[i].Value, Normalized(list[i].TLVs))]

\* the tag text is hex and its bytes pass the tag grammar
TagValid(text) ==
    /\ hexDecodeString(text).err = <<>>
    /\ validateTag(hexDecodeString(text).bytes) = <<>>

\* the first byte of a valid tag
FirstByte(text) == hexDecodeString(text).bytes[1]

\* bit 0x20 of a byte
Bit20(b) == b % 64 >= 32

\* the error message has the text s among its pieces
Mentions(err, s) == \E j \in 1..Len(err) : err[j].k = "text" /\ err[j].v = s

(***************************************************************************)
(* C1  Round-trip.                                                         *)
(***************************************************************************)
\* C1 as claimed.  For every tree in which every tag is valid per the tag grammar and
\* every node is a leaf with value bytes or a composite with children (never a value
\* and children both), Encode succeeds and Decode of its output returns the tree with
\* its tag texts in upper case.
WellFormedAsClaimed(list) ==
    \A node \in NodesOf(list) :
        /\ TagValid(node.Tag)
        /\ ~(node.Value # <<>> /\ node.TLVs # <<>>)

C1_RoundTripAsClaimed ==
    \A i \in CallsOf("Encode") :
        WellFormedAsClaimed(calls[i].tlvs) =>
            /\ calls[i].err = <<>>
            /\ Followed(i, "Decode") =>
                /\ ~calls[i + 1].panic
                /\ calls[i + 1].err = <<>>
                /\ calls[i + 1].tlvs = Normalized(calls[i].tlvs)

\* C1 as amended.  For every tree in which every tag is valid per the tag grammar and
\* does not start with the byte 00, every node under a constructed tag carries no
\* value bytes and every node under a primitive tag carries no children, Encode
\* succeeds and Decode of its output returns the tree with its tag texts in upper case.
WellFormed(list) ==
    \A node \in NodesOf(list) :
        /\ TagValid(node.Tag)
        /\ FirstByte(node.Tag) # 0
        /\ Bit20(FirstByte(node.Tag)) => node.Value = <<>>
        /\ ~Bit20(FirstByte(node.Tag)) => node.TLVs = <<>>

C1_RoundTrip ==
    \A i \in CallsOf("Encode") :
        WellFormed(calls[i].tlvs) =>
            /\ calls[i].err = <<>>
            /\ Followed(i, "Decode") =>
                /\ ~calls[i + 1].panic
                /\ calls[i + 1].err = <<>>
                /\ calls[i + 1].tlvs = Normalized(calls[i].tlvs)

\* C1 witness: a well-formed tree with a composite, a child in it and a tag text in
\* lower case was encoded and its bytes decoded.
C1_Witness ==
    \E i \in CallsOf("Encode") :
        /\ WellFormed(calls[i].tlvs)
        /\ \E node \in NodesOf(calls[i].tlvs) : node.TLVs # <<>>
        /\ Normalized(calls[i].tlvs) # calls[i].tlvs
        /\ Followed(i, "Decode")
        /\ calls[i + 1].tlvs = Normalized(calls[i].tlvs)

(***************************************************************************)
(* C2  Re-encoding a decoded buffer.                                       *)
(***************************************************************************)
\* C2 as claimed.  For every buffer on which Decode succeeds, Encode of the decoded
\* tree succeeds and returns exactly the buffer.
C2_ReencodeAsClaimed ==
    \A i \in CallsOf("Decode") :
        (calls[i].err = <<>> /\ ~calls[i].panic /\ Followed(i, "Encode")) =>
            /\ calls[i + 1].err = <<>>
            /\ calls[i + 1].encoded = calls[i].data

RECURSIVE Canonical(_)
\* buf, on which Decode succeeds, has no 00 byte at a tag position and every one of
\* its length fields, at every depth, is the one encodeLength writes for that length
Canonical(buf) ==
    \/ buf = <<>>
    \/ LET t == decodeTag(buf)
           afterTag == SubSeq(buf, t.read + 1, Len(buf))
           l == decodeLength(afterTag)
           afterLength == SubSeq(afterTag, l.read + 1, Len(afterTag))
           length == int64Value(l.length)
       IN  /\ t.tag[1] # 0
           /\ SubSeq(afterTag, 1, l.read) = encodeLength(length)
           /\ isConstructed(t.tag) => Canonical(SubSeq(afterLength, 1, length))
           /\ Canonical(SubSeq(afterLength, length + 1, Len(afterLength)))

\* C2 as amended.  For every buffer on which Decode succeeds, which has no 00 padding
\* byte at a tag position and whose length fields are all in the minimal form that
\* encodeLength writes, Encode of the decoded tree succeeds and returns exactly the
\* buffer.  For every buffer on which Decode succeeds, Encode of the decoded tree
\* succeeds.
C2_Reencode ==
    \A i \in CallsOf("Decode") :
        (calls[i].err = <<>> /\ ~calls[i].panic /\ Followed(i, "Encode")) =>
            /\ calls[i + 1].err = <<>>
            /\ Canonical(calls[i].data) => calls[i + 1].encoded = calls[i].data

\* C2 witness: a buffer built byte by byte, holding a composite with a record in it,
\* was decoded and the tree encoded to the buffer.
C2_Witness ==
    \E i \in CallsOf("Decode") :
        /\ i = 1
        /\ calls[i].err = <<>> /\ ~calls[i].panic
        /\ Canonical(calls[i].data)
        /\ \E node \in NodesOf(calls[i].tlvs) : node.TLVs # <<>>
        /\ Followed(i, "Encode")
        /\ calls[i + 1].encoded = calls[i].data

(***************************************************************************)
(* C3  The FCI template vector.                                            *)
(***************************************************************************)
\* 6F2F840E325041592E5359532E4444463031A51DBF0C1A61184F07A0000000041010500A4D617374657263617264870101
FCIEncoded ==
    << 111, 47, 132, 14, 50, 80, 65, 89, 46, 83, 89, 83, 46, 68,
       68, 70, 48, 49, 165, 29, 191, 12, 26, 97, 24, 79, 7, 160,
       0, 0, 0, 4, 16, 16, 80, 10, 77, 97, 115, 116, 101, 114,
       99, 97, 114, 100, 135, 1, 1 >>

\* C3.  Encode of the FCI template 6F{84, A5{BF0C{61{4F, 50, 87}}}} returns no error
\* and exactly the bytes 6F2F84...870101.
C3_FCIVector ==
    \A i \in CallsOf("Encode") :
        calls[i].tlvs = FCITemplate =>
            /\ calls[i].err = <<>>
            /\ calls[i].encoded = FCIEncoded

\* C3 witness: the FCI template was encoded.
C3_Witness ==
    \E i \in CallsOf("Encode") :
        /\ calls[i].tlvs = FCITemplate
        /\ calls[i].encoded = FCIEncoded

(***************************************************************************)
(* C4  Children under a primitive tag.                                     *)
(***************************************************************************)
\* a node of the tree, at any depth, has children under a tag whose first byte has
\* bit 0x20 clear
ChildrenUnderPrimitive(list) ==
    \E node \in NodesOf(list) :
        /\ node.TLVs # <<>>
        /\ hexDecodeString(node.Tag).err = <<>>
        /\ hexDecodeString(node.Tag).bytes # <<>>
        /\ ~Bit20(FirstByte(node.Tag))

\* C4.  When a node at any depth has children and bit 0x20 of its first tag byte is
\* clear, Encode returns an error and no bytes; when no node with children has the bit
\* clear, Encode does not fail with the not-constructed error.
C4_ConstructedMismatch ==
    \A i \in CallsOf("Encode") :
        /\ ChildrenUnderPrimitive(calls[i].tlvs) =>
               calls[i].err # <<>> /\ calls[i].encoded = <<>>
        /\ ~ChildrenUnderPrimitive(calls[i].tlvs) =>
               ~Mentions(calls[i].err, " is not constructed/composite")

\* C4 witness: Encode refused a tree whose only fault is a node below the top level
\* with a child under the primitive tag 84.
C4_Witness ==
    \E i \in CallsOf("Encode") :
        /\ Len(calls[i].tlvs) = 1
        /\ Bit20(FirstByte(calls[i].tlvs[1].Tag))
        /\ Len(calls[i].tlvs[1].TLVs) = 1
        /\ calls[i].tlvs[1].TLVs[1].Tag = <<"8", "4">>
        /\ calls[i].tlvs[1].TLVs[1].TLVs # <<>>
        /\ Mentions(calls[i].err, " is not constructed/composite")
        /\ calls[i].encoded = <<>>

(***************************************************************************)
(* C5  A value beside children.                                            *)
(***************************************************************************)
\* C5 as claimed.  Encode returns an error for a tree in which a node carries both a
\* non-empty Value and at least one child.
C5_ValueWithChildrenRejected ==
    \A i \in CallsOf("Encode") :
        (\E node \in NodesOf(calls[i].tlvs) : node.Value # <<>> /\ node.TLVs # <<>>) =>
            calls[i].err # <<>>

(***************************************************************************)
(* C6  Padding.                                                            *)
(***************************************************************************)
\* Decode succeeds on buf
Decodes(buf) == Decode(buf).err = <<>> /\ ~Decode(buf).panic

\* buf is a, then the bytes i + 1 .. j, all 00, then b
PaddedAt(buf, i, j) == \A p \in (i + 1)..j : buf[p] = 0

\* C6.  When the buffer is a run of records that decode, any number of 00 bytes, and
\* another run of records that decode (either run may be empty or hold padding of its
\* own), Decode succeeds and returns the nodes of the first run and then those of the
\* second: the 00 bytes yield no node and take no length or value bytes with them.
\* Stated of the buffers built byte by byte.
C6_PaddingSkip ==
    \A n \in CallsOf("Decode") :
        Len(calls[n].data) <= MaxLen =>
            \A i \in 0..Len(calls[n].data) : \A j \in i..Len(calls[n].data) :
                LET a == SubSeq(calls[n].data, 1, i)
                    b == SubSeq(calls[n].data, j + 1, Len(calls[n].data))
                IN  (PaddedAt(calls[n].data, i, j) /\ Decodes(a) /\ Decodes(b)) =>
                        /\ calls[n].err = <<>>
                        /\ ~calls[n].panic
                        /\ calls[n].tlvs = Decode(a).tlvs \o Decode(b).tlvs

\* C6 witness: a buffer of a record, a 00 byte and a record was decoded to the two
\* nodes.
C6_Witness ==
    \E n \in CallsOf("Decode") :
        /\ Len(calls[n].data) <= MaxLen
        /\ \E i \in 1..Len(calls[n].data) :
            LET a == SubSeq(calls[n].data, 1, i)
                b == SubSeq(calls[n].data, i + 2, Len(calls[n].data))
            IN  /\ i + 1 <= Len(calls[n].data)
                /\ calls[n].data[i + 1] = 0
                /\ Decodes(a) /\ Len(Decode(a).tlvs) = 1
                /\ Decodes(b) /\ Len(Decode(b).tlvs) = 1
                /\ calls[n].err = <<>>
                /\ Len(calls[n].tlvs) = 2

(***************************************************************************)
(* C7  Truncation, and no partial result.                                  *)
(***************************************************************************)
RECURSIVE bigEndian(_)
\* the number the bytes write, most significant first (for at most three bytes)
bigEndian(bytes) ==
    IF bytes = <<>>
    THEN 0
    ELSE bigEndian(SubSeq(bytes, 1, Len(bytes) - 1)) * 256 + bytes[Len(bytes)]

\* the number a length field declares is larger than n.  field is the whole field:
\* one byte below 128, or a lead byte and the bytes of the number
DeclaresMoreThan(field, n) ==
    IF field[1] < 128
    THEN field[1] > n
    ELSE \/ \E p \in 2..(Len(field) - 3) : field[p] # 0
         \/ bigEndian(SubSeq(field, IF Len(field) > 4 THEN Len(field) - 2 ELSE 2, Len(field))) > n

RECURSIVE Broken(_)
\* Decode, reading buf record by record and the value of every constructed record in
\* the same way, meets a malformed tag, a malformed length, or a record that
\* declares more bytes than remain in the buffer it sits in
Broken(buf) ==
    /\ buf # <<>>
    /\ LET t == decodeTag(buf)
           afterTag == SubSeq(buf, t.read + 1, Len(buf))
           l == decodeLength(afterTag)
           afterLength == SubSeq(afterTag, l.read + 1, Len(afterTag))
           length == int64Value(l.length)
       IN  \/ t.err # <<>>
           \/ /\ t.err = <<>>
              /\ t.tag[1] = 0
              /\ Broken(afterTag)
           \/ /\ t.err = <<>>
              /\ t.tag[1] # 0
              /\ \/ l.err # <<>>
                 \/ /\ l.err = <<>>
                    /\ DeclaresMoreThan(SubSeq(afterTag, 1, l.read), Len(afterLength))
                 \/ /\ l.err = <<>>
                    /\ ~DeclaresMoreThan(SubSeq(afterTag, 1, l.read), Len(afterLength))
                    /\ \/ isConstructed(t.tag) /\ Broken(SubSeq(afterLength, 1, length))
                       \/ Broken(SubSeq(afterLength, length + 1, Len(afterLength)))

\* C7 as claimed.  Whenever a record at any depth declares a length larger than the
\* bytes remaining in its enclosing buffer, or a tag or a length anywhere is
\* malformed, Decode returns an error and no tree.
C7_TruncationIsAnError ==
    \A n \in CallsOf("Decode") :
        Broken(calls[n].data) =>
            /\ ~calls[n].panic
            /\ calls[n].err # <<>>
            /\ calls[n].tlvs = <<>>

(***************************************************************************)
(* C8  The insufficient-data error and its tag.                            *)
(***************************************************************************)
\* C8 as claimed.  The insufficient-data error of Decode carries a tag: one of the
\* pieces of its message is a tag, as bytes or as text.
C8_InsufficientDataNamesTag ==
    \A n \in CallsOf("Decode") :
        Mentions(calls[n].err, "insufficient data for expected length ") =>
            \E j \in 1..Len(calls[n].err) : calls[n].err[j].k \in {"%X", "%s"}

(***************************************************************************)
(* C9  Length encoding.                                                    *)
(***************************************************************************)
\* C9.  encodeLength(n) is the one byte n for n <= 127; for larger n it is the lead
\* byte 0x80 | k and then the k bytes of n, most significant first, the first of them
\* not zero.  127 gives 7F, 128 gives 81 80, 256 gives 82 01 00.
C9_EncodeLength ==
    \A i \in CallsOf("encodeLength") :
        LET n == calls[i].length
            bytes == calls[i].bytes
            k == Len(bytes) - 1
        IN  /\ n <= 127 => bytes = <<n>>
            /\ n > 127 =>
                /\ k >= 1
                /\ bytes[1] = 128 + k
                /\ bytes[2] # 0
                /\ \A p \in 1..Len(bytes) : bytes[p] \in Byte
                /\ n = ((IF k >= 4 THEN bytes[k - 2] * 16777216 ELSE 0)
                        + (IF k >= 3 THEN bytes[k - 1] * 65536 ELSE 0)
                        + (IF k >= 2 THEN bytes[k] * 256 ELSE 0)
                        + bytes[k + 1])
                /\ k <= 4
            /\ n = 127 => bytes = <<127>>
            /\ n = 128 => bytes = <<129, 128>>
            /\ n = 256 => bytes = <<130, 1, 0>>

\* C9 witness: encodeLength was called with 256 and with a length of four bytes.
C9_Witness ==
    \E i \in CallsOf("encodeLength") :
        /\ calls[i].length \in {256, 16777216}
        /\ Len(calls[i].bytes) \in {3, 5}

(***************************************************************************)
(* C10  Path lookup.                                                       *)
(***************************************************************************)
RECURSIVE Segments(_)
\* the segments of a path, split at its dots
Segments(path) ==
    IF \E p \in 1..Len(path) : path[p] = "."
    THEN LET p == CHOOSE p \in 1..Len(path) : path[p] = "." /\ \A q \in 1..(p - 1) : path[q] # "."
         IN  <<SubSeq(path, 1, p - 1)>> \o Segments(SubSeq(path, p + 1, Len(path)))
    ELSE <<path>>

\* a path s1.s2...sn of segments that are not empty
DottedPath(path) == \A p \in 1..Len(Segments(path)) : Segments(path)[p] # <<>>

NotFound == [tlv |-> TLV(<<>>, <<>>, <<>>), found |-> FALSE]

\* the least index of the set
First(indices) == CHOOSE i \in indices : \A j \in indices : i <= j

RECURSIVE ResolveAsClaimed(_, _)
\* the lookup C10 describes: at each level the first sibling whose tag equals the
\* segment is taken; it is the result for the last segment; for another segment it
\* must have children, against which the rest is resolved
ResolveAsClaimed(list, segments) ==
    LET matching == {i \in 1..Len(list) : list[i].Tag = segments[1]}
    IN  IF matching = {}
        THEN NotFound
        ELSE IF Len(segments) = 1
        THEN [tlv |-> list[First(matching)], found |-> TRUE]
        ELSE IF list[First(matching)].TLVs = <<>>
        THEN NotFound
        ELSE ResolveAsClaimed(list[First(matching)].TLVs, Tail(segments))

\* C10 as claimed, of the trees Decode can return: those whose nodes have children
\* only under a constructed tag.
C10_PathLookupAsClaimed ==
    \A i \in CallsOf("FindTagByPath") :
        (DottedPath(calls[i].path) /\ WellFormed(calls[i].tlvs)) =>
            LET r == ResolveAsClaimed(calls[i].tlvs, Segments(calls[i].path))
            IN  /\ calls[i].found = r.found
                /\ r.found => calls[i].tlv = r.tlv

RECURSIVE Resolve(_, _)
\* the lookup as amended: for a segment that is not the last, the first sibling whose
\* tag equals the segment and which has a child is taken
Resolve(list, segments) ==
    LET matching == {i \in 1..Len(list) :
                        /\ list[i].Tag = segments[1]
                        /\ Len(segments) > 1 => list[i].TLVs # <<>>}
    IN  IF matching = {}
        THEN NotFound
        ELSE IF Len(segments) = 1
        THEN [tlv |-> list[First(matching)], found |-> TRUE]
        ELSE Resolve(list[First(matching)].TLVs, Tail(segments))

\* C10 as amended.  FindTagByPath(tlvs, "s1.s2...sn") descends one level per segment:
\* for the last segment it returns the first sibling whose tag equals the segment,
\* with found = true; for a segment before the last it takes the first sibling whose
\* tag equals the segment and which has at least one child, passing over matching
\* siblings without children, and resolves the rest of the path against the children
\* of that sibling; the result is not-found when no sibling matches the last segment
\* or no sibling that matches an earlier segment has children.
C10_PathLookup ==
    \A i \in CallsOf("FindTagByPath") :
        DottedPath(calls[i].path) =>
            LET r == Resolve(calls[i].tlvs, Segments(calls[i].path))
            IN  /\ calls[i].found = r.found
                /\ r.found => calls[i].tlv = r.tlv

\* C10 witness: in a tree Decode can return, a path of two segments was found through
\* the second of two siblings with the tag of its first segment, the first of them
\* having no children.
C10_Witness ==
    \E i \in CallsOf("FindTagByPath") :
        /\ DottedPath(calls[i].path)
        /\ WellFormed(calls[i].tlvs)
        /\ Len(Segments(calls[i].path)) = 2
        /\ Len(calls[i].tlvs) = 2
        /\ calls[i].tlvs[1].Tag = Segments(calls[i].path)[1]
        /\ calls[i].tlvs[1].TLVs = <<>>
        /\ calls[i].tlvs[2].Tag = Segments(calls[i].path)[1]
        /\ calls[i].found
        /\ calls[i].tlv = calls[i].tlvs[2].TLVs[1]

(***************************************************************************)
(* C11  FindFirstTag.                                                      *)
(***************************************************************************)
RECURSIVE Preorder(_)
\* the nodes of a tree in depth-first pre-order: a node, then its subtree, then its
\* next sibling
Preorder(list) ==
    IF Len(list) = 0
    THEN <<>>
    ELSE <<list[1]>> \o Preorder(list[1].TLVs) \o Preorder(Tail(list))

\* the places in depth-first pre-order at which the tag stands
PlacesOf(list, tag) == {j \in 1..Len(Preorder(list)) : Preorder(list)[j].Tag = tag}

\* the first node with the tag in depth-first pre-order, or not found
FirstInPreorder(list, tag) ==
    IF PlacesOf(list, tag) = {}
    THEN NotFound
    ELSE [tlv |-> Preorder(list)[First(PlacesOf(list, tag))], found |-> TRUE]

\* C11.  FindFirstTag(tlvs, tag) returns found = true exactly when some node of the
\* tree, at any depth and under any sibling, carries the tag, and the node it returns
\* is the first such node in depth-first pre-order.
C11_FindFirstTagPreorder ==
    \A i \in CallsOf("FindFirstTag") :
        LET r == FirstInPreorder(calls[i].tlvs, calls[i].tag)
        IN  /\ calls[i].found = r.found
            /\ r.found => calls[i].tlv = r.tlv

(***************************************************************************)
(* C12  FindFirstTag and FindFirst over the tag map.                       *)
(***************************************************************************)
\* C12.  For every tree and every tag, FindFirstTag(tlvs, tag) and
\* FindFirst(BuildTagMap(tlvs), tag) return the same found flag and, when found, the
\* same node.
C12_FindFirstInterchangeable ==
    \A i \in CallsOf("FindFirstTag") : \A j \in CallsOf("FindFirst") :
        (calls[j].tag = calls[i].tag /\ calls[j].tagMap = BuildTagMap(calls[i].tlvs)) =>
            /\ calls[j].found = calls[i].found
            /\ calls[j].found => calls[j].tlv = calls[i].tlv

(***************************************************************************)
(* C13  The tag map holds every occurrence, in order of encounter.         *)
(***************************************************************************)
\* the tags that occur in a tree, at every depth
TagsOf(list) == {node.Tag : node \in NodesOf(list)}

\* the nodes of a tree that carry the tag, in depth-first pre-order
Occurrences(list, tag) == SelectSeq(Preorder(list), LAMBDA node : node.Tag = tag)

C14_TagMapStats ==
    \A i \in CallsOf("GetTagMapStats") :
        /\ calls[i].stats.TotalTags = NodeCount(calls[i].tlvs)
        /\ calls[i].stats.UniqueTags = Cardinality(TagsOf(calls[i].tlvs))
        /\ calls[i].stats.DuplicateTags =
              calls[i].stats.TotalTags - calls[i].stats.UniqueTags

\* C14 witness: for the tree of three templates, each with one 9F10, the statistics
\* are 6 nodes, 4 distinct tags and 2 duplicates.
C14_Witness ==
    \E i \in CallsOf("GetTagMapStats") :
        /\ calls[i].tlvs = DuplicateTagsTree
        /\ calls[i].stats.TotalTags = 6
        /\ calls[i].stats.UniqueTags = 4
        /\ calls[i].stats.DuplicateTags = 2

Returned == {i \in 2..Len(calls) : calls[i].pc = "done"}

\* what the call of goroutine i returns when it runs alone on the map m
Alone(i, m) ==
    IF calls[i].fn = "FindFirst"
    THEN /\ calls[i].found = FindFirst(m, calls[i].tag).found
         /\ calls[i].tlv = FindFirst(m, calls[i].tag).tlv
    ELSE IF calls[i].fn = "Find"
    THEN /\ calls[i].found = Find(m, calls[i].tag).found
         /\ calls[i].instances = Find(m, calls[i].tag).tlvs
    ELSE calls[i].stats = GetTagMapStats(m)

\* C16.  Once the map is built, Find, FindFirst and GetTagMapStats never modify the
\* map or the nodes it holds, and under every interleaving of concurrent read calls on
\* the same map every call returns what it returns when it runs alone.
C16_ConcurrentReaders ==
    (calls # <<>> /\ calls[1].fn = "BuildTagMap") =>
        /\ tagMap = calls[1].tagMap
        /\ tlvs = calls[1].tlvs
        /\ \A i \in Returned : Alone(i, calls[1].tagMap)

\* C16 witness: a goroutine in GetTagMapStats is in the middle of its range loop over
\* the map of the three templates, and a goroutine started after it has returned from
\* GetTagMapStats with 6 nodes, 4 distinct tags and 2 duplicates.
C16_Witness ==
    /\ Len(calls) = 3
    /\ calls[1].fn = "BuildTagMap" /\ calls[1].tlvs = DuplicateTagsTree
    /\ calls[2].fn = "GetTagMapStats" /\ calls[2].pc = "range"
    /\ Cardinality(calls[2].visited) = 2
    /\ calls[3].fn = "GetTagMapStats" /\ calls[3].pc = "done"
    /\ calls[3].stats.TotalTags = 6
    /\ calls[3].stats.UniqueTags = 4
    /\ calls[3].stats.DuplicateTags = 2

(***************************************************************************)
(* C17  Unmarshal binds by tag among the nodes of the list it is given.    *)
(***************************************************************************)
\* the calls of Unmarshal with a pointer to a record
Mappings ==
    {i \in CallsOf("Unmarshal") :
        calls[i].s.Kind = "pointer" /\ ~calls[i].s.IsNil /\ calls[i].s.Elem = "struct"}

\* the tag a field declares: the text of its bertlv struct tag up to the first comma
DeclaredTag(typeField) ==
    LET commas == {j \in 1..Len(typeField.bertlv) : typeField.bertlv[j] = ","}
    IN  IF commas = {}
        THEN typeField.bertlv
        ELSE SubSeq(typeField.bertlv, 1, First(commas) - 1)

\* the field declares the hint "ascii" after its tag
AsciiHint(typeField) ==
    \E j \in 1..Len(typeField.bertlv) :
        /\ typeField.bertlv[j] = ","
        /\ j + 5 <= Len(typeField.bertlv)
        /\ SubSeq(typeField.bertlv, j + 1, j + 5) = <<"a", "s", "c", "i", "i">>
        /\ j + 5 = Len(typeField.bertlv) \/ typeField.bertlv[j + 6] = ","

\* the places in the list, not below it, of the nodes with the tag the field declares
Siblings(list, typeField) ==
    {k \in 1..Len(list) : DeclaredTag(typeField) # <<>> /\ list[k].Tag = DeclaredTag(typeField)}

\* the node of the list the field is bound to
BoundNode(list, typeField) ==
    list[CHOOSE k \in Siblings(list, typeField) : \A j \in Siblings(list, typeField) : j <= k]

RECURSIVE Frame(_, _, _, _)
\* of the record of the given type, with the field values before and after: a field
\* whose tag is not in the list, or which declares none, has kept its value, and a
\* nested record bound to a node obeys the same against the children of that node
Frame(list, type, before, after) ==
    \A f \in 1..Len(type) :
        /\ Siblings(list, type[f]) = {} => after[f] = before[f]
        /\ (Siblings(list, type[f]) # {} /\ type[f].Kind = "struct") =>
              Frame(BoundNode(list, type[f]).TLVs, type[f].Fields, before[f], after[f])

\* C17.  Unmarshal looks the tag of each declared field up only among the nodes of
\* the list it is given, never below them; a field whose tag is absent from that list,
\* or which declares no tag, keeps its previous value and is no cause of an error:
\* when no field of the record has its tag in the list Unmarshal returns no error, and
\* an error comes only with an integer or nested record field whose tag is in the
\* list; a nested record field is filled by the same rules from the children of the
\* node bound to it.
C17_BindsAmongSiblings ==
    \A i \in Mappings :
        /\ Frame(calls[i].tlvs, calls[i].s.T, calls[i].s.v, calls[i].v)
        /\ (\A f \in 1..Len(calls[i].s.T) : Siblings(calls[i].tlvs, calls[i].s.T[f]) = {}) =>
              calls[i].err = <<>>
        /\ calls[i].err # <<>> =>
              \E f \in 1..Len(calls[i].s.T) :
                  /\ Siblings(calls[i].tlvs, calls[i].s.T[f]) # {}
                  /\ calls[i].s.T[f].Kind \in {"int64", "struct"}

\* C17 witness: the record of type Nested, with values already in its fields, was
\* given the list [61{84: "5"}]: the field bound to 84 kept its value although a node
\* 84 stands below 61, and the nested record bound to 61 got "5" from that node.
C17_Witness ==
    \E i \in Mappings :
        /\ calls[i].s.T = Nested
        /\ calls[i].s.v = Preset(Nested)
        /\ calls[i].tlvs = << TLV(<<"6", "1">>, <<>>, << TLV(<<"8", "4">>, <<53>>, <<>>) >>) >>
        /\ calls[i].err = <<>>
        /\ calls[i].v = << <<9>>, << <<"5">>, <<"3", "5">> >>, <<"7">> >>

(***************************************************************************)
(* C18  Unmarshal converts by field kind and hint.                         *)
(***************************************************************************)
\* the upper-case hex digits of the bytes, two a byte
HexText(bytes) ==
    [j \in 1..(2 * Len(bytes)) |->
        IF j % 2 = 1
        THEN upperDigits[(bytes[(j + 1) \div 2] \div 16) + 1]
        ELSE upperDigits[(bytes[j \div 2] % 16) + 1]]

\* the text the field's hint makes of the bytes
TextOf(typeField, bytes) ==
    IF AsciiHint(typeField) THEN stringOfBytes(bytes) ELSE HexText(bytes)

\* the text is one or more decimal digits
Digits(str) == Len(str) > 0 /\ \A j \in 1..Len(str) : digitValue(str[j]) >= 0

\* the text writes a decimal number: digits, after a sign or without one
Decimal(str) ==
    \/ Digits(str)
    \/ Len(str) > 1 /\ str[1] \in {"+", "-"} /\ Digits(Tail(str))

\* the numeral of the number a decimal text writes: no leading zeros, no plus sign,
\* a minus sign only before a number other than zero
NumberOf(str) ==
    IF str[1] = "-" /\ stripZeros(Tail(str)) # <<"0">>
    THEN <<"-">> \o stripZeros(Tail(str))
    ELSE IF str[1] \in {"+", "-"}
    THEN stripZeros(Tail(str))
    ELSE stripZeros(str)

RECURSIVE Converted(_, _, _)
\* every field of the record that is bound to a node of the list holds the value of
\* that node, converted by the field's kind and hint
Converted(list, type, after) ==
    \A f \in 1..Len(type) :
        Siblings(list, type[f]) # {} =>
            LET value == BoundNode(list, type[f]).Value
            IN  /\ type[f].Kind = "bytes" => after[f] = value
                /\ type[f].Kind = "string" => after[f] = TextOf(type[f], value)
                /\ (type[f].Kind = "int64" /\ Decimal(TextOf(type[f], value))) =>
                      after[f] = NumberOf(TextOf(type[f], value))
                /\ type[f].Kind = "struct" =>
                      Converted(BoundNode(list, type[f]).TLVs, type[f].Fields, after[f])

\* C18.  When Unmarshal returns no error, a raw-bytes field bound to a node holds the
\* value bytes unchanged, a text field holds the bytes as ASCII text with the ascii
\* hint and the upper-case hex string of the bytes without it, and an integer field
\* holds the decimal number written by the ASCII digits with the ascii hint and by the
\* hex digits of the bytes without it.
C18_ConvertsByKindAndHint ==
    \A i \in Mappings :
        calls[i].err = <<>> => Converted(calls[i].tlvs, calls[i].s.T, calls[i].v)

\* C18 witness: the record of TestUnmarshalSuccess after Unmarshal of its tree:
\* the file name bytes, "A0000000041010", "Mastercard", the byte 01, 1234 and 5678.
C18_Witness ==
    \E i \in Mappings :
        /\ calls[i].tlvs = UnmarshalData
        /\ calls[i].s.T = EMVData
        /\ calls[i].err = <<>>
        /\ calls[i].v =
             << <<50, 80, 65, 89, 46, 83, 89, 83, 46, 68, 68, 70, 48, 49>>,
                << <<"A", "0", "0", "0", "0", "0", "0", "0", "0", "4", "1", "0", "1", "0">>,
                   <<"M", "a", "s", "t", "e", "r", "c", "a", "r", "d">>,
                   <<1>> >>,
                <<"1", "2", "3", "4">>,
                <<"5", "6", "7", "8">> >>

(***************************************************************************)
(* C19  A conversion failure fails the mapping and names the field.        *)
(***************************************************************************)
\* the error names the field: its name is among the pieces of the message
Names(err, name) == \E j \in 1..Len(err) : err[j].k = "%s" /\ err[j].v = name

RECURSIVE Failing(_, _)
\* the names of the integer fields, of the record or of a nested record bound to a
\* node, whose bound value is not a decimal number under the field's hint
Failing(list, type) ==
    UNION { IF Siblings(list, type[f]) = {}
            THEN {}
            ELSE IF type[f].Kind = "int64"
            THEN IF Decimal(TextOf(type[f], BoundNode(list, type[f]).Value))
                 THEN {}
                 ELSE {type[f].Name}
            ELSE IF type[f].Kind = "struct"
            THEN Failing(BoundNode(list, type[f]).TLVs, type[f].Fields)
            ELSE {} : f \in 1..Len(type) }

RECURSIVE FirstFailing(_, _, _)
\* the name of the first such field in the order of declaration, a nested record's
\* fields standing at the place of the record, from field f on
FirstFailing(list, type, f) ==
    IF Siblings(list, type[f]) # {} /\ type[f].Kind = "int64"
         /\ ~Decimal(TextOf(type[f], BoundNode(list, type[f]).Value))
    THEN type[f].Name
    ELSE IF Siblings(list, type[f]) # {} /\ type[f].Kind = "struct"
         /\ Failing(BoundNode(list, type[f]).TLVs, type[f].Fields) # {}
    THEN FirstFailing(BoundNode(list, type[f]).TLVs, type[f].Fields, 1)
    ELSE FirstFailing(list, type, f + 1)

TagSet(tags) == {tags[j] : j \in 1..Len(tags)}

\* the nodes of the list, not below it, whose tag is in the tag list, in their order
Selected(list, tags) == SelectSeq(list, LAMBDA node : node.Tag \in TagSet(tags))

\* C20.  CopyTags(tlvs, tags...) returns exactly the top-level nodes of tlvs whose tag
\* is in the tag set, in their original order, each with its value and its whole
\* subtree equal to the source; a node with a tag of the set below a top-level node
\* that is not selected is not returned; with an empty input, an empty tag set or no
\* match the result is nil.  A nil value or child list and an empty one count as equal.
C20_CopyTags ==
    \A i \in CallsOf("CopyTags") :
        /\ calls[i].result = Selected(calls[i].tlvs, calls[i].tags)
        /\ (calls[i].tlvs = <<>> \/ calls[i].tags = <<>>
               \/ Selected(calls[i].tlvs, calls[i].tags) = <<>>) <=> calls[i].isNil
        /\ tlvs = calls[i].tlvs

\* C20 witness: of a list with a composite A5 that holds a node 84 and, after it, a
\* leaf 84, CopyTags with the tag 84 returned the leaf alone; and in another call
\* CopyTags with the tag A5 returned a composite with its child.
C20_Witness ==
    \E i \in CallsOf("CopyTags") :
        /\ calls[i].tags = << <<"8", "4">> >>
        /\ Len(calls[i].tlvs) = 2
        /\ calls[i].tlvs[1].Tag = <<"A", "5">>
        /\ \E node \in NodesOf(calls[i].tlvs[1].TLVs) : node.Tag = <<"8", "4">>
        /\ calls[i].tlvs[2].Tag = <<"8", "4">>
        /\ calls[i].result = << calls[i].tlvs[2] >>
        /\ ~calls[i].isNil

(***************************************************************************)
(* C21  CopyTags is a deep copy.                                           *)
(***************************************************************************)
\* the stores made so far through the given side
StoresOf(side) == {i \in 2..Len(calls) : calls[i].side = side}

\* C21.  CopyTags leaves its input unchanged; the copy shares no array with the source
\* tree at any depth, so after stores into value bytes and children of the source only
\* the copy shows what it showed when CopyTags returned, and after stores into the
\* copy only the source shows what it showed before the call.
C21_DeepCopy ==
    (calls # <<>> /\ calls[1].fn = "CopyTags" /\ "src" \in DOMAIN calls[1]) =>
        /\ calls[1].after = calls[1].tlvs
        /\ arraysOf(heap, calls[1].src) \cap arraysOf(heap, calls[1].result) = {}
        /\ StoresOf("copy") = {} => treeAt(heap, calls[1].result) = calls[1].copy
        /\ StoresOf("source") = {} => treeAt(heap, calls[1].src) = calls[1].tlvs

\* C21 witness: CopyTags returned a node with a grandchild that has a value; stores
\* into the source tree changed what the source shows, and the copy shows what it
\* showed when CopyTags returned.
C21_Witness ==
    /\ Len(calls) = 1 + MaxStores
    /\ calls[1].fn = "CopyTags" /\ "src" \in DOMAIN calls[1]
    /\ \E n \in NodesOf(calls[1].copy) : \E c \in NodesOf(n.TLVs) : Len(c.Value) > 0
    /\ StoresOf("copy") = {}
    /\ treeAt(heap, calls[1].src) # calls[1].tlvs
    /\ treeAt(heap, calls[1].result) = calls[1].copy

(***************************************************************************)
(* C22  PAN masking.                                                       *)
(***************************************************************************)
\* the hex rendering of bytes: two digits a byte, the high half first
Rendering(bytes) ==
    [j \in 1..(2 * Len(bytes)) |->
        IF j % 2 = 1
        THEN lowerDigits[(bytes[(j + 1) \div 2] \div 16) + 1]
        ELSE lowerDigits[(bytes[j \div 2] % 16) + 1]]

\* C22.  For a PAN whose hex rendering has at least 10 digits filterPan returns the
\* first 6 digits, "****" and the last 4 digits, 14 characters in all, so that no digit
\* between the first 6 and the last 4 is in the output; a shorter value is returned as
\* its whole hex rendering; the input bytes are not modified.
C22_FilterPan ==
    \A i \in CallsOf("filterPan") :
        LET pan == Rendering(calls[i].data)
            out == calls[i].text
        IN  /\ Len(pan) >= 10 =>
                  /\ Len(out) = 14
                  /\ \A j \in 1..6 : out[j] = pan[j]
                  /\ \A j \in 7..10 : out[j] = "*"
                  /\ \A j \in 1..4 : out[10 + j] = pan[Len(pan) - 4 + j]
            /\ Len(pan) < 10 => out = pan
            /\ calls[i].after = calls[i].data
            /\ data = calls[i].data

\* C22 witness: the PAN 5432121234561437 was filtered to 543212****1437.
C22_Witness ==
    \E i \in CallsOf("filterPan") :
        /\ calls[i].data = TestPan
        /\ calls[i].text = <<"5", "4", "3", "2", "1", "2", "*", "*", "*", "*",
                             "1", "4", "3", "7">>

(***************************************************************************)
(* C23  The shape of a decoded tree.                                       *)
(***************************************************************************)
\* bit 0x20 of the first byte of the tag of a node
ConstructedBit(node) == (FirstByte(node.Tag) \div 32) % 2 = 1

\* C23.  In every tree Decode returns, at every depth, a node whose first tag byte has
\* bit 0x20 set has no value bytes, a node whose bit 0x20 is clear has no children, and
\* no node has both value bytes and children.
C23_DecodedShape ==
    \A i \in CallsOf("Decode") :
        (calls[i].err = <<>> /\ ~calls[i].panic) =>
            \A node \in NodesOf(calls[i].tlvs) :
                /\ ConstructedBit(node) => node.Value = <<>>
                /\ ~ConstructedBit(node) => node.TLVs = <<>>
                /\ node.Value = <<>> \/ node.TLVs = <<>>

\* C23 witness: Decode returned a tree in which a node with bit 0x20 has a child
\* without it, and the child has value bytes.
C23_Witness ==
    \E i \in CallsOf("Decode") :
        /\ calls[i].err = <<>> /\ ~calls[i].panic
        /\ \E node \in NodesOf(calls[i].tlvs) :
               /\ ConstructedBit(node)
               /\ \E child \in NodesOf(node.TLVs) :
                      ~ConstructedBit(child) /\ Len(child.Value) > 0

(***************************************************************************)
(* C24  Length decoding.                                                   *)
(***************************************************************************)
RECURSIVE WithoutLeadingZeros(_)
\* the bytes without the zeros they start with
WithoutLeadingZeros(bytes) ==
    IF Len(bytes) > 0 /\ bytes[1] = 0
    THEN WithoutLeadingZeros(Tail(bytes))
    ELSE bytes

\* the length returned is the number the bytes spell, most significant first
IsBigEndianOf(length, bytes) ==
    /\ ~int64Negative(length)
    /\ WithoutLeadingZeros(length) = WithoutLeadingZeros(bytes)

\* what C24 says of one call of decodeLength
LengthDecoded(i) ==
    LET buf == calls[i].data
        k == buf[1] % 128
    IN  /\ buf = <<>> => calls[i].err # <<>>
        /\ (buf # <<>> /\ buf[1] < 128) =>
              /\ calls[i].err = <<>>
              /\ calls[i].read = 1
              /\ IsBigEndianOf(calls[i].length, <<buf[1]>>)
        /\ (buf # <<>> /\ buf[1] >= 128 /\ Len(buf) < k + 1) => calls[i].err # <<>>
        /\ (buf # <<>> /\ buf[1] >= 128 /\ Len(buf) >= k + 1) =>
              /\ calls[i].err = <<>>
              /\ calls[i].read = k + 1
              /\ IsBigEndianOf(calls[i].length, SubSeq(buf, 2, k + 1))
        /\ (i > 1 /\ calls[i - 1].fn = "encodeLength") =>
              /\ calls[i].err = <<>>
              /\ int64Small(calls[i].length)
              /\ int64Value(calls[i].length) = calls[i - 1].length
              /\ calls[i].read = Len(calls[i - 1].bytes)

\* C24 as claimed.  decodeLength takes a lead byte below 128 as the length, with 1
\* byte consumed; with a lead byte of 128 or more and k = lead & 0x7F it returns the
\* big-endian value of the next k bytes, with k + 1 bytes consumed; it fails on an
\* empty buffer and when fewer than k bytes follow the lead byte; and
\* decodeLength(encodeLength(n)) returns n and consumes the encoded bytes.
C24_LengthDecoding == \A i \in CallsOf("decodeLength") : LengthDecoded(i)

(***************************************************************************)
(* C25  Tag validation on Encode.                                          *)
(***************************************************************************)
\* the first byte has all of its low 5 bits set
LowFiveSet(tag) == tag[1] % 32 = 31

\* the tag byte strings C25 lists
Rejected(tag) ==
    \/ Len(tag) = 0
    \/ Len(tag) > 0 /\ ~LowFiveSet(tag) /\ Len(tag) > 1
    \/ Len(tag) > 0 /\ LowFiveSet(tag) /\ (Len(tag) = 1 \/ tag[Len(tag)] >= 128)
    \/ \E j \in 2..(Len(tag) - 1) : tag[j] < 128

\* C25.  Encode returns an error for a node whose tag bytes are empty, whose first byte
\* does not have all low 5 bits set but which has more than one byte, whose first byte
\* has all low 5 bits set but which has only one byte or whose last byte has the high
\* bit set, or in which a byte strictly between the first and the last lacks the high
\* bit; every other tag byte string is accepted, by validateTag and by Encode.
C25_TagValidation ==
    /\ \A i \in CallsOf("validateTag") :
           calls[i].err # <<>> <=> Rejected(calls[i].tag)
    /\ \A i \in CallsOf("Encode") :
           "tag" \in DOMAIN calls[i] => (calls[i].err # <<>> <=> Rejected(calls[i].tag))

\* C25 witness: Encode refused a node with the tag 9F 01 01, whose middle byte lacks
\* the high bit.
C25_Witness ==
    \E i \in CallsOf("Encode") :
        /\ "tag" \in DOMAIN calls[i]
        /\ calls[i].tag = <<159, 1, 1>>
        /\ Mentions(calls[i].err, "invalid tag format: byte %d should have MSB set")
        /\ calls[i].encoded = <<>>

(***************************************************************************)
(* C26  Long-form lengths beyond the buffer.                               *)
(***************************************************************************)
RECURSIVE Overlong(_)
\* Decode, reading buf record by record and the value of every constructed record in
\* the same way, meets a long-form length field whose number is larger than the bytes
\* that remain after it
Overlong(buf) ==
    /\ buf # <<>>
    /\ LET t == decodeTag(buf)
           afterTag == SubSeq(buf, t.read + 1, Len(buf))
           l == decodeLength(afterTag)
           afterLength == SubSeq(afterTag, l.read + 1, Len(afterTag))
           length == int64Value(l.length)
           more == DeclaresMoreThan(SubSeq(afterTag, 1, l.read), Len(afterLength))
       IN  /\ t.err = <<>>
           /\ \/ t.tag[1] = 0 /\ Overlong(afterTag)
              \/ /\ t.tag[1] # 0
                 /\ l.err = <<>>
                 /\ \/ afterTag[1] >= 128 /\ more
                    \/ /\ ~more
                       /\ \/ isConstructed(t.tag) /\ Overlong(SubSeq(afterLength, 1, length))
                          \/ Overlong(SubSeq(afterLength, length + 1, Len(afterLength)))

\* C26 as claimed.  Decode never slices outside its buffer: no call of it stops the
\* program, and whenever the number of a long-form length field is larger than the
\* bytes remaining, fields of 8 and more bytes included, Decode returns an error.
C26_NoSliceOutside ==
    \A n \in CallsOf("Decode") :
        /\ ~calls[n].panic
        /\ Overlong(calls[n].data) => calls[n].err # <<>>


(***************************************************************************)
(* C27  Termination of Decode.                                             *)
(***************************************************************************)
\* the call of Decode has returned
DecodeReturned == calls # <<>> /\ calls[1].pc = "done"

\* each call of Decode on the value of a composite was given a buffer strictly shorter
\* than the one its caller was given, and there are no more such calls in progress
\* than the buffer has bytes
DepthBounded ==
    Decoding =>
        LET c == calls[1]
        IN  /\ \A j \in 1..(Len(c.frames) - 1) : c.frames[j + 1].size < c.frames[j].size
            /\ \A j \in 1..Len(c.frames) : Len(c.frames[j].data) <= c.frames[j].size
            /\ c.frames[1].size = Len(c.data)
            /\ Len(c.frames) - 1 <= Len(c.data)

\* an iteration of the loop fails, or leaves strictly less of the buffer of its frame;
\* the call it makes on the value of a composite is given strictly less than was left
IterationConsumes ==
    (Decoding /\ Len(calls[1].frames[Len(calls[1].frames)].data) > 0) =>
        LET c == calls[1]
            after == calls'[1]
            d == Len(c.frames)
        IN  IF after.pc = "done"
            THEN after.err # <<>> \/ after.panic
            ELSE /\ Len(after.frames) \in {d, d + 1}
                 /\ Len(after.frames[d].data) < Len(c.frames[d].data)
                 /\ Len(after.frames) = d + 1 =>
                        after.frames[d + 1].size < Len(c.frames[d].data)

\* C27.  Decode terminates on every buffer: every iteration of its loop fails or
\* consumes at least one byte of what is left of the buffer, every call on the value of
\* a composite is given a buffer strictly shorter than its caller's, so that the depth
\* of the recursion is at most the length of the buffer, and a call that was entered
\* returns.
C27_DecodeTerminates ==
    /\ []DepthBounded
    /\ [][IterationConsumes]_vars
    /\ (Decoding ~> DecodeReturned)

\* Decode has returned a composite with a child: a call on the value of a composite was
\* made, it returned, and so did the caller
C27_Witness ==
    /\ DecodeReturned
    /\ calls[1].err = <<>>
    /\ \E i \in 1..Len(calls[1].tlvs) : calls[1].tlvs[i].TLVs # <<>>

\* the call that returned, returned what Decode(data) is
SteppedAsDecode ==
    DecodeReturned =>
        LET r == Decode(calls[1].data)
        IN  /\ calls[1].tlvs = r.tlvs
            /\ calls[1].err = r.err
            /\ calls[1].panic = r.panic


(***************************************************************************)
(* C28  One tag grammar for the encoder and the decoder.                   *)
(***************************************************************************)
\* validateTag accepts the bytes exactly when decodeTag reads them and reads them all
SameGrammar(i) ==
    LET v == calls[i]
        d == calls[i + 1]
    IN  v.tag # <<>> => (v.err = <<>> <=> (d.err = <<>> /\ d.read = Len(v.tag)))

\* the tag Encode emitted is what the tag reader of Decode reads from the output, and
\* the tag of the first node of a Decode without error when its first byte is not 00
ReadBackWhole(i) ==
    LET e == calls[i]
        d == calls[i + 1]
        t == decodeTag(e.encoded)
    IN  (e.err = <<>> /\ e.tag[1] # 0) =>
            /\ t.err = <<>> /\ t.tag = e.tag /\ t.read = Len(e.tag)
            /\ (d.err = <<>> /\ ~d.panic) =>
                   /\ d.tlvs # <<>>
                   /\ d.tlvs[1].Tag = ToUpper(hexEncodeToString(e.tag))

\* C28.  validateTag and decodeTag define the same tag grammar: validateTag accepts a
\* non-empty byte string exactly when decodeTag succeeds on it and consumes all of it;
\* every tag Encode emits whose first byte is not 00 is read back whole by Decode; and
\* every tag of a node Decode returns passes validateTag.
C28_SameTagGrammar ==
    /\ \A i \in CallsOf("validateTag") : Followed(i, "decodeTag") => SameGrammar(i)
    /\ \A i \in CallsOf("Encode") : Followed(i, "Decode") => ReadBackWhole(i)
    /\ \A i \in CallsOf("Decode") :
           \A node \in NodesOf(calls[i].tlvs) : TagValid(node.Tag)

\* validateTag accepted the three bytes 9F 81 01, and decodeTag read all three as the tag
C28_Witness ==
    /\ Len(calls) = 2
    /\ calls[1].fn = "validateTag" /\ calls[1].tag = <<159, 129, 1>> /\ calls[1].err = <<>>
    /\ calls[2].fn = "decodeTag" /\ calls[2].err = <<>> /\ calls[2].read = 3


(***************************************************************************)
(* C29  No backtracking among siblings with equal tags.                    *)
(***************************************************************************)
\* the siblings with the tag that have children
WithChildren(list, tag) ==
    {j \in 1..Len(list) : list[j].Tag = tag /\ list[j].TLVs # <<>>}

RECURSIVE HasChain(_, _)
\* some chain of nodes, one per level, has the tags of the segments
HasChain(list, segments) ==
    \E j \in 1..Len(list) :
        /\ list[j].Tag = segments[1]
        /\ Len(segments) > 1 => HasChain(list[j].TLVs, Tail(segments))

PopulatedFrom(i, f, node) ==
    Unmarshal(<<node>>, PointerTo(<<calls[i].s.T[f]>>, <<calls[i].s.v[f]>>)).v[1]

\* C30.  When the list given to Unmarshal holds several siblings with the tag of a
\* field, the field is populated from the last of them in list order, while
\* FindTagByPath on the same list returns the first of them and FindFirst on the tag
\* map of the same list returns the first node with the tag.
C30_LastSiblingWins ==
    \A i \in Mappings :
        \A f \in 1..Len(calls[i].s.T) :
            LET list == calls[i].tlvs
                same == Siblings(list, calls[i].s.T[f])
                tag == DeclaredTag(calls[i].s.T[f])
            IN  Cardinality(same) > 1 =>
                    /\ calls[i].err = <<>> =>
                           calls[i].v[f] = PopulatedFrom(i, f, BoundNode(list, calls[i].s.T[f]))
                    /\ FindTagByPath(list, tag) = [tlv |-> list[First(same)], found |-> TRUE]
                    /\ FindFirst(BuildTagMap(list), tag) = FirstInPreorder(list, tag)

\* the record of type Texts, zeroed, was given the list [84: "5", 84: "-5"]: its fields
\* hold "-5", the value of the second node, while FindTagByPath and FindFirst return
\* the first node
C30_Witness ==
    \E i \in Mappings :
        /\ calls[i].s.T = Texts
        /\ calls[i].s.v = Zero(Texts)
        /\ calls[i].tlvs = << TLV(<<"8", "4">>, <<53>>, <<>>), TLV(<<"8", "4">>, <<45, 53>>, <<>>) >>
        /\ calls[i].err = <<>>
        /\ calls[i].v = << <<45, 53>>, <<"2", "D", "3", "5">>, <<"-", "5">>, FALSE >>
        /\ FindTagByPath(calls[i].tlvs, <<"8", "4">>).tlv.Value = <<53>>
        /\ FindFirst(BuildTagMap(calls[i].tlvs), <<"8", "4">>).tlv.Value = <<53>>

====
